---- MODULE Spec2Model ----
(***************************************************************************)
(* Tap Sprint backend (task-3/backend/server.js): the in-memory game       *)
(* games, the socket event handlers join_game / start_game / tap /         *)
(* disconnect, the end-of-game timeout callback and the leaderboard.       *)
(* Every handler runs to completion on the Node event loop, so each is one *)
(* atomic action.                                                          *)
(* Sokoban page (task-1/public/sokoban): the levels, tryMove, undo and the *)
(* level loader; its state is apart from the server's, and each            *)
(* specification below moves one of the two programs.                      *)
(***************************************************************************)
EXTENDS Integers, Sequences, FiniteSets, TLC

(* ------------------------------ bounds --------------------------------- *)
\* the monotonic clock stops advancing here
MaxTime == 15006
\* taps accepted for one player in one round
MaxTaps == 2
\* how far (ms) the wall clock may be set back behind the monotonic clock
MaxSetBack == 1

\* key presses and clicks the Sokoban page processes on one loaded level
MaxInputs == 4
\* the same, from a history that is already long
MaxUndoInputs == 3

(* ------------------------- program constants --------------------------- *)
TAP_WINDOW_MS == 15000
MAX_LEADERBOARD_GAMES == 50
\* the "+5ms guard" added to the end-of-game timeout
GUARD_MS == 5
\* startTime / endTime of a game that never started (JS null)
NullTime == -1
\* String(payload.playerId || '') of a payload without playerId
EmptyId == 0
\* buildLeaderboardTopN(10) and recentGames.slice(-10) of GET /leaderboard
TOP_N == 10
RECENT_N == 10
\* saveState: "if (history.length > 100) history.shift()"
HISTORY_LIMIT == 100
\* JS null where an object is expected (winner, timeoutHandle, payload)
null == [null |-> TRUE]

\* the connections the server sees during a run; a socket id is never reused
Sockets == {1, 2}
\* the strings generateId draws from (the real space is 36^12 strings)
IdSpace == {1, 2}
GameIds == {"default", "g1"}

\* strings are sequences of characters, so that trim() can be computed
Blank == " "
UsernameInputs == {<<Blank>>, <<Blank, "a", Blank>>}
GameIdInputs == {""}

VARIABLES
  games,        \* gameId -> game object (the Map `games`)
  gameOrder,    \* the keys of `games` in insertion order
  recentGames,  \* finished games, oldest first
  timers,       \* pending setTimeout callbacks
  mono,         \* monotonic clock the timers run on (ms)
  wallOffset,   \* Date.now() - mono
  conn,         \* socket -> "new" | "open" | "closed"
  last,         \* the event processed by the last step
  ack,          \* what that event's acknowledgement callback received
  out,          \* the broadcasts that event emitted, in order
  windowTaps,   \* history: gameId -> playerId -> the taps of the round sent for
                \* that player over the player's own connection and processed
                \* at an instant of [startTime, endTime]
  lateTap,      \* history: gameId -> such a tap was processed after endTime
                \* while the round was still running
  \* the Sokoban page (task-1/public/sokoban), a program of its own
  currentLevel, \* index into LEVELS, from 0
  player,       \* [x, y]
  boxes,        \* the array of box positions
  moveCount,
  pushCount,
  history,      \* the undo stack, oldest snapshot first
  winTimers,    \* pending setTimeout(showWinOverlay, 300) calls
  inputs        \* key presses and clicks processed since the level was loaded

\* the state of the Sokoban page
sokoban ==
  <<currentLevel, player, boxes, moveCount, pushCount, history, winTimers, inputs>>

\* the state of the server, the record of the last event aside
server ==
  <<games, gameOrder, recentGames, timers, mono, wallOffset, conn, ack, out,
    windowTaps, lateTap>>

vars ==
  <<games, gameOrder, recentGames, timers, mono, wallOffset, conn, last, ack, out,
    windowTaps, lateTap, currentLevel, player, boxes, moveCount, pushCount, history,
    winTimers, inputs>>

(* ------------------------------ helpers -------------------------------- *)
DateNow == mono + wallOffset

RECURSIVE TrimStart(_)
TrimStart(s) ==
  IF s # <<>> /\ Head(s) = Blank THEN TrimStart(Tail(s)) ELSE s

RECURSIVE TrimEnd(_)
TrimEnd(s) ==
  IF s # <<>> /\ s[Len(s)] = Blank THEN TrimEnd(SubSeq(s, 1, Len(s) - 1)) ELSE s

\* String.prototype.trim
Trim(s) == TrimEnd(TrimStart(s))

\* payloads: a record that may lack fields, or null
HasField(payload, f) == f \in DOMAIN payload

IsNull(v) == "null" \in DOMAIN v

\* String(payload.username || '').trim()
UsernameOf(payload) ==
  IF HasField(payload, "username") THEN Trim(payload.username) ELSE <<>>

\* String(payload.gameId || 'default')
GameIdOf(payload) ==
  IF HasField(payload, "gameId") /\ payload.gameId # ""
  THEN payload.gameId ELSE "default"

\* String(payload.playerId || '')
PlayerIdOf(payload) ==
  IF HasField(payload, "playerId") THEN payload.playerId ELSE EmptyId

\* a Map<playerId, player> is the sequence of its values in insertion order
MapHas(players, pid) == \E i \in 1..Len(players) : players[i].playerId = pid

MapGet(players, pid) ==
  players[CHOOSE i \in 1..Len(players) : players[i].playerId = pid]

\* Map.prototype.set: an existing key keeps its place, a new one goes last
MapSet(players, pid, val) ==
  IF MapHas(players, pid)
  THEN [i \in 1..Len(players) |->
          IF players[i].playerId = pid THEN val ELSE players[i]]
  ELSE Append(players, val)

\* Map.prototype.delete
MapDelete(players, pid) ==
  SelectSeq(players, LAMBDA p : p.playerId # pid)

NewGame ==
  [status |-> "lobby", players |-> <<>>, startTime |-> NullTime,
   endTime |-> NullTime, timeoutHandle |-> null]

createGameIfMissing(gs, gameId) ==
  IF gameId \in DOMAIN gs THEN gs
  ELSE [g \in DOMAIN gs \cup {gameId} |-> IF g = gameId THEN NewGame ELSE gs[g]]

\* the comparator with its operands exchanged: ascending order
CompareTaps_Ascending(a, b) == a.taps - b.taps

\* the comparator of computeResults: (a, b) => b.taps - a.taps
CompareTaps(a, b) == b.taps - a.taps

\* an insertion that puts x in front of the elements it compares equal to,
\* as an unstable sort may
RECURSIVE InsertStable_TiesReversed(_, _)
InsertStable_TiesReversed(sorted, x) ==
  IF sorted = <<>> THEN <<x>>
  ELSE IF CompareTaps(x, sorted[Len(sorted)]) > 0 THEN Append(sorted, x)
  ELSE Append(InsertStable_TiesReversed(SubSeq(sorted, 1, Len(sorted) - 1), x),
              sorted[Len(sorted)])

\* Array.prototype.sort is stable: x goes behind everything it does not
\* strictly precede
RECURSIVE InsertStable(_, _)
InsertStable(sorted, x) ==
  IF sorted = <<>> THEN <<x>>
  ELSE IF CompareTaps(x, sorted[Len(sorted)]) >= 0 THEN Append(sorted, x)
  ELSE Append(InsertStable(SubSeq(sorted, 1, Len(sorted) - 1), x),
              sorted[Len(sorted)])

RECURSIVE SortScores(_)
SortScores(a) ==
  IF a = <<>> THEN <<>>
  ELSE InsertStable(SortScores(SubSeq(a, 1, Len(a) - 1)), a[Len(a)])

ScoreOf(p) == [playerId |-> p.playerId, username |-> p.username, taps |-> p.taps]

computeResults(game) ==
  LET scores == SortScores([i \in 1..Len(game.players) |-> ScoreOf(game.players[i])])
  IN  [scores |-> scores,
       winner |-> IF scores = <<>> THEN null ELSE scores[1]]

\* recordGameToLeaderboard keeping one record per room: the record of an
\* earlier round of the room is overwritten by the new one
recordGameToLeaderboard_OverwritesRoom(rg, gameId, game, now) ==
  LET r == computeResults(game)
      record == [gameId |-> gameId, timestamp |-> now,
                 winner |-> r.winner, scores |-> r.scores]
      pushed == IF \E i \in 1..Len(rg) : rg[i].gameId = gameId
                THEN [i \in 1..Len(rg) |-> IF rg[i].gameId = gameId THEN record ELSE rg[i]]
                ELSE Append(rg, record)
  IN  IF Len(pushed) > MAX_LEADERBOARD_GAMES THEN Tail(pushed) ELSE pushed

\* recordGameToLeaderboard storing the roster as it stands, in the order of
\* the joins, instead of the ranking of computeResults
recordGameToLeaderboard_Unranked(rg, gameId, game, now) ==
  LET scores == [i \in 1..Len(game.players) |-> ScoreOf(game.players[i])]
      pushed == Append(rg, [gameId |-> gameId, timestamp |-> now,
                            winner |-> IF scores = <<>> THEN null ELSE scores[1],
                            scores |-> scores])
  IN  IF Len(pushed) > MAX_LEADERBOARD_GAMES THEN Tail(pushed) ELSE pushed

\* recordGameToLeaderboard dropping the record it has just pushed
recordGameToLeaderboard_PopsNewest(rg, gameId, game, now) ==
  LET r == computeResults(game)
      pushed == Append(rg, [gameId |-> gameId, timestamp |-> now,
                            winner |-> r.winner, scores |-> r.scores])
  IN  IF Len(pushed) > MAX_LEADERBOARD_GAMES
      THEN SubSeq(pushed, 1, Len(pushed) - 1) ELSE pushed

recordGameToLeaderboard(rg, gameId, game, now) ==
  LET r == computeResults(game)
      pushed == Append(rg, [gameId |-> gameId, timestamp |-> now,
                            winner |-> r.winner, scores |-> r.scores])
  IN  IF Len(pushed) > MAX_LEADERBOARD_GAMES THEN Tail(pushed) ELSE pushed

\* the inner loop of buildLeaderboardTopN: the entries of one record
EntriesOf(g) ==
  [i \in 1..Len(g.scores) |->
     [username |-> g.scores[i].username, taps |-> g.scores[i].taps,
      gameId |-> g.gameId, timestamp |-> g.timestamp]]

\* the outer loop: allScores before it is sorted
RECURSIVE Flatten(_)
Flatten(rg) ==
  IF rg = <<>> THEN <<>>
  ELSE Flatten(SubSeq(rg, 1, Len(rg) - 1)) \o EntriesOf(rg[Len(rg)])

\* the comparator with the later timestamp first among equal scores
CompareEntries_LatestFirst(a, b) ==
  IF b.taps - a.taps # 0 THEN b.taps - a.taps ELSE b.timestamp - a.timestamp

\* (a, b) => b.taps - a.taps || a.timestamp - b.timestamp
CompareEntries(a, b) ==
  IF b.taps - a.taps # 0 THEN b.taps - a.taps ELSE a.timestamp - b.timestamp

\* Array.prototype.sort (stable) under CompareEntries
RECURSIVE InsertEntry(_, _)
InsertEntry(sorted, x) ==
  IF sorted = <<>> THEN <<x>>
  ELSE IF CompareEntries(x, sorted[Len(sorted)]) >= 0 THEN Append(sorted, x)
  ELSE Append(InsertEntry(SubSeq(sorted, 1, Len(sorted) - 1), x),
              sorted[Len(sorted)])

RECURSIVE SortEntries(_)
SortEntries(a) ==
  IF a = <<>> THEN <<>>
  ELSE InsertEntry(SortEntries(SubSeq(a, 1, Len(a) - 1)), a[Len(a)])

\* Array.prototype.slice(0, n), n >= 0
SliceFirst(a, n) == SubSeq(a, 1, IF n < Len(a) THEN n ELSE Len(a))

\* Array.prototype.slice(-n), n > 0
SliceLast(a, n) == SubSeq(a, IF n < Len(a) THEN Len(a) - n + 1 ELSE 1, Len(a))

\* buildLeaderboardTopN cutting the list before it sorts it
buildLeaderboardTopN_SliceFirst(rg, n) == SortEntries(SliceFirst(Flatten(rg), n))

buildLeaderboardTopN(rg, n) == SliceFirst(SortEntries(Flatten(rg)), n)

LobbyPlayers(players) ==
  [i \in 1..Len(players) |->
     [playerId |-> players[i].playerId, username |-> players[i].username]]

NoAck == [none |-> TRUE]
Fail(hasAck, error) == IF hasAck THEN [ok |-> FALSE, error |-> error] ELSE NoAck

(* ------------------------------ Sokoban -------------------------------- *)
\* levels.js; a row is the sequence of the characters of its string
LEVELS ==
  << [name |-> "Getting Started",
      map |->
      << <<"#", "#", "#", "#", "#">>,
         <<"#", ".", " ", " ", "#">>,
         <<"#", " ", "$", "$", "#">>,
         <<"#", " ", "@", " ", "#">>,
         <<"#", "#", "#", "#", "#">> >>],
     [name |-> "Three Goals",
      map |->
      << <<"#", "#", "#", "#", "#", "#", "#">>,
         <<"#", " ", " ", ".", " ", " ", "#">>,
         <<"#", " ", "$", "$", "$", " ", "#">>,
         <<"#", " ", " ", "@", " ", " ", "#">>,
         <<"#", "#", "#", "#", "#", "#", "#">> >>],
     [name |-> "The Corridor",
      map |->
      << <<"#", "#", "#", "#", "#", "#", "#", "#">>,
         <<"#", " ", " ", ".", " ", ".", " ", "#">>,
         <<"#", " ", " ", "$", " ", "$", " ", "#">>,
         <<"#", " ", " ", "@", " ", ".", " ", "#">>,
         <<"#", " ", " ", "$", " ", " ", " ", "#">>,
         <<"#", "#", "#", "#", "#", "#", "#", "#">> >>],
     [name |-> "Classic Puzzle",
      map |->
      << <<" ", " ", "#", "#", "#", "#", "#", " ", " ">>,
         <<"#", "#", "#", " ", " ", " ", "#", "#", "#">>,
         <<"#", ".", ".", "$", "@", "$", ".", ".", "#">>,
         <<"#", "#", "#", " ", " ", " ", "#", "#", "#">>,
         <<" ", " ", "#", "#", "#", "#", "#", " ", " ">> >>],
     [name |-> "Corner Strategy",
      map |->
      << <<"#", "#", "#", "#", "#", "#", "#", "#">>,
         <<"#", ".", ".", " ", " ", " ", " ", "#">>,
         <<"#", ".", ".", " ", "$", "$", " ", "#">>,
         <<"#", " ", " ", "$", " ", " ", "#", "#">>,
         <<"#", " ", "$", " ", "#", " ", " ", "#">>,
         <<"#", " ", " ", " ", "@", " ", " ", "#">>,
         <<"#", "#", "#", "#", "#", "#", "#", "#">> >>] >>

TILE_TYPES == [WALL |-> "WALL", FLOOR |-> "FLOOR", GOAL |-> "GOAL"]

DIRECTIONS ==
  [UP |-> [dx |-> 0, dy |-> -1], DOWN |-> [dx |-> 0, dy |-> 1],
   LEFT |-> [dx |-> -1, dy |-> 0], RIGHT |-> [dx |-> 1, dy |-> 0]]

MapOf(level) == LEVELS[level + 1].map

gridHeight(level) == Len(MapOf(level))

\* Math.max(...map.map(row => row.length))
gridWidth(level) ==
  LET map == MapOf(level)
  IN  CHOOSE w \in {Len(map[y]) : y \in 1..Len(map)} :
        \A y \in 1..Len(map) : Len(map[y]) <= w

\* map[y][x], a blank where the row is shorter than the grid is wide
CharAt(level, x, y) ==
  LET row == MapOf(level)[y + 1]
  IN  IF x < Len(row) THEN row[x + 1] ELSE " "

\* grid[y][x] as loadLevel fills it: FLOOR unless the character says otherwise
grid(level, x, y) ==
  LET char == CharAt(level, x, y)
  IN  IF char = "#" THEN TILE_TYPES.WALL
      ELSE IF char \in {".", "+", "*"} THEN TILE_TYPES.GOAL
      ELSE TILE_TYPES.FLOOR

\* the cells in the order the two loops of loadLevel visit them
Cells(level) ==
  [k \in 1..(gridWidth(level) * gridHeight(level)) |->
     [x |-> (k - 1) % gridWidth(level), y |-> (k - 1) \div gridWidth(level)]]

CellsWith(level, chars) ==
  SelectSeq(Cells(level), LAMBDA c : CharAt(level, c.x, c.y) \in chars)

\* boxes, goals and player as loadLevel leaves them
BoxesOf(level) == CellsWith(level, {"$", "*"})

GoalsOf(level) == CellsWith(level, {".", "+", "*"})

PlayerOf(level, previous) ==
  LET found == CellsWith(level, {"@", "+"})
  IN  IF found = <<>> THEN previous ELSE found[Len(found)]

\* the page after init() has loaded the first level
SokobanInit ==
  /\ currentLevel = 0
  /\ player = PlayerOf(0, [x |-> 0, y |-> 0])
  /\ boxes = BoxesOf(0)
  /\ moveCount = 0
  /\ pushCount = 0
  /\ history = <<>>
  /\ winTimers = 0
  /\ inputs = 0

(* ------------------------------- Init ---------------------------------- *)
Init ==
  /\ games = <<>>
  /\ gameOrder = <<>>
  /\ recentGames = <<>>
  /\ timers = {}
  /\ mono = 0
  /\ wallOffset = MaxSetBack
  /\ conn = [s \in Sockets |-> "new"]
  /\ last = [op |-> "boot"]
  /\ ack = NoAck
  /\ out = <<>>
  /\ windowTaps = [g \in GameIds |-> [p \in IdSpace |-> 0]]
  /\ lateTap = [g \in GameIds |-> FALSE]
  /\ SokobanInit

(* ------------------------------ inputs --------------------------------- *)
JoinPayloads ==
  {null, <<>>} \cup {[username |-> u] : u \in UsernameInputs}

StartPayloads == {null, <<>>}

TapPayloads == {null, <<>>} \cup {[playerId |-> p] : p \in IdSpace}

\* besides the instant of the start, the clock is observed at these distances
\* (ms) from the arming of a timeout: at and just after the end of the
\* window, and when the timeout is due
ClockOffsets ==
  {TAP_WINDOW_MS, TAP_WINDOW_MS + 1, TAP_WINDOW_MS + GUARD_MS}

Instants == {tm.due - (TAP_WINDOW_MS + GUARD_MS) + d : tm \in timers, d \in ClockOffsets}

(* ------------------------------ actions -------------------------------- *)
\* io.on('connection'): sockets connect in the order of their ids
Connect(s) ==
  /\ conn[s] = "new"
  /\ \A r \in Sockets : r < s => conn[r] # "new"
  /\ conn' = [conn EXCEPT ![s] = "open"]
  /\ last' = [op |-> "connect", sock |-> s]
  /\ ack' = NoAck
  /\ out' = <<>>
  /\ UNCHANGED <<games, gameOrder, recentGames, timers, mono, wallOffset, windowTaps, lateTap>>
  /\ UNCHANGED sokoban

\* the keys of `games` after createGameIfMissing(gameId)
KeysWith(gameId) ==
  IF gameId \in DOMAIN games THEN gameOrder ELSE Append(gameOrder, gameId)

\* the roster entry join_game stores
NewPlayer(playerId, username, s) ==
  [playerId |-> playerId, username |-> username, socketId |-> s, taps |-> 0]

\* JoinError turning joins away only while a round is running
JoinError_OnlyRunning(username, game) ==
  IF username = <<>> THEN "username_required"
  ELSE IF game.status = "running" THEN "game_already_started"
  ELSE ""

\* the checks of join_game before it stores the player: the error it
\* acknowledges, or "" when it goes on
JoinError(username, game) ==
  IF username = <<>> THEN "username_required"
  ELSE IF game.status # "lobby" THEN "game_already_started"
  ELSE ""

\* socket.on('join_game')
JoinGame(s, payload, hasAck) ==
  /\ conn[s] = "open"
  /\ IF IsNull(payload)
     THEN \* payload.username throws, the catch acknowledges
          /\ last' = [op |-> "join_game", sock |-> s, gameId |-> "", raw |-> <<>>,
                      hasAck |-> hasAck]
          /\ ack' = Fail(hasAck, "internal_error")
          /\ out' = <<>>
          /\ UNCHANGED <<games, gameOrder>>
     ELSE
       LET username == UsernameOf(payload)
           gameId == GameIdOf(payload)
           gs == createGameIfMissing(games, gameId)
           game == gs[gameId]
       IN
       /\ last' = [op |-> "join_game", sock |-> s, gameId |-> gameId,
                   raw |-> IF HasField(payload, "username") THEN payload.username ELSE <<>>,
                   hasAck |-> hasAck]
       /\ IF username = <<>>
          THEN \* returns before createGameIfMissing
               /\ ack' = Fail(hasAck, "username_required")
               /\ out' = <<>>
               /\ UNCHANGED <<games, gameOrder>>
          ELSE IF JoinError(username, game) # ""
          THEN /\ ack' = Fail(hasAck, JoinError(username, game))
               /\ out' = <<>>
               /\ games' = gs
               /\ gameOrder' = KeysWith(gameId)
          ELSE \E playerId \in IdSpace :  \* generateId('player')
               LET players == MapSet(game.players, playerId, NewPlayer(playerId, username, s))
               IN
               /\ games' = [gs EXCEPT ![gameId].players = players]
               /\ gameOrder' = KeysWith(gameId)
               /\ out' = <<[event |-> "lobby_update", gameId |-> gameId,
                            players |-> LobbyPlayers(players)]>>
               /\ ack' = IF hasAck
                         THEN [ok |-> TRUE, playerId |-> playerId, gameId |-> gameId]
                         ELSE NoAck
  /\ UNCHANGED <<recentGames, timers, mono, wallOffset, conn, windowTaps, lateTap>>
  /\ UNCHANGED sokoban

\* the timeout start_game arms: the Timeout object is known by its game and
\* the monotonic instant it is due
NewTimer(gameId) == [gameId |-> gameId, due |-> mono + TAP_WINDOW_MS + GUARD_MS]

\* start_game without the loop that resets the scores
ResetTaps_Skipped(players) == players

\* the loop "for (const p of game.players.values()) p.taps = 0"
ResetTaps(players) ==
  [i \in 1..Len(players) |-> [players[i] EXCEPT !.taps = 0]]

\* clearTimeout(handle): a timer that fired or was cleared is not pending
ClearTimeout(pending, handle) == pending \ {handle}

\* StartError without the check of the roster
StartError_AnyRoster(game) ==
  IF game.status = "running" THEN "already_running" ELSE ""

\* StartError without the check of the status
StartError_AnyStatus(game) ==
  IF Len(game.players) = 0 THEN "no_players" ELSE ""

\* the checks of start_game before it starts the round: the error it
\* acknowledges, or "" when it goes on
StartError(game) ==
  IF game.status = "running" THEN "already_running"
  ELSE IF Len(game.players) = 0 THEN "no_players"
  ELSE ""

\* the end of the window taken for the instant the timeout is due
EndTimeOf_WithGuard(startTime) == startTime + TAP_WINDOW_MS + GUARD_MS

\* game.endTime = game.startTime + TAP_WINDOW_MS
EndTimeOf(startTime) == startTime + TAP_WINDOW_MS

\* socket.on('start_game')
StartGame(s, payload, hasAck) ==
  /\ conn[s] = "open"
  /\ IF IsNull(payload)
     THEN /\ last' = [op |-> "start_game", gameId |-> "", hasAck |-> hasAck]
          /\ ack' = Fail(hasAck, "internal_error")
          /\ out' = <<>>
          /\ UNCHANGED <<games, gameOrder, timers, windowTaps, lateTap>>
     ELSE
       LET gameId == GameIdOf(payload)
           gs == createGameIfMissing(games, gameId)
           game == gs[gameId]
           now == DateNow
           handle == NewTimer(gameId)
       IN
       /\ last' = [op |-> "start_game", gameId |-> gameId, hasAck |-> hasAck]
       /\ gameOrder' = KeysWith(gameId)
       /\ IF StartError(game) # ""
          THEN /\ ack' = Fail(hasAck, StartError(game))
               /\ out' = <<>>
               /\ games' = gs
               /\ UNCHANGED <<timers, windowTaps, lateTap>>
          ELSE /\ windowTaps' = [windowTaps EXCEPT ![gameId] = [p \in IdSpace |-> 0]]
               /\ lateTap' = [lateTap EXCEPT ![gameId] = FALSE] /\ games' = [gs EXCEPT ![gameId] =
                              [status |-> "running",
                               players |-> ResetTaps(game.players),
                               startTime |-> now,
                               endTime |-> EndTimeOf(now),
                               timeoutHandle |-> handle]]
               /\ out' = <<[event |-> "game_start", gameId |-> gameId,
                            startTime |-> now, durationMs |-> TAP_WINDOW_MS]>>
               /\ timers' = (IF IsNull(game.timeoutHandle) THEN timers
                             ELSE ClearTimeout(timers, game.timeoutHandle))
                              \cup {handle}
               /\ ack' = IF hasAck
                         THEN [ok |-> TRUE, gameId |-> gameId, startTime |-> now,
                               durationMs |-> TAP_WINDOW_MS]
                         ELSE NoAck
  /\ UNCHANGED <<recentGames, mono, wallOffset, conn>>
  /\ UNCHANGED sokoban

\* TapCounts without the checks of the status and of the window
TapCounts_AnyTime(game, playerId, s, now) ==
  /\ MapHas(game.players, playerId)
  /\ MapGet(game.players, playerId).socketId = s

\* TapCounts with the end of the window excluded
TapCounts_ExclusiveEnd(game, playerId, s, now) ==
  /\ game.status = "running"
  /\ ~(game.startTime = NullTime \/ game.endTime = NullTime)
  /\ ~(now < game.startTime \/ now >= game.endTime)
  /\ MapHas(game.players, playerId)
  /\ MapGet(game.players, playerId).socketId = s

\* TapCounts relying on the status alone to close the window
TapCounts_StatusOnly(game, playerId, s, now) ==
  /\ game.status = "running"
  /\ MapHas(game.players, playerId)
  /\ MapGet(game.players, playerId).socketId = s

\* TapCounts without the comparison of socket ids
TapCounts_AnySocket(game, playerId, s, now) ==
  /\ game.status = "running"
  /\ ~(game.startTime = NullTime \/ game.endTime = NullTime)
  /\ ~(now < game.startTime \/ now > game.endTime)
  /\ MapHas(game.players, playerId)

\* the checks of socket.on('tap') between the lookup of the game and the
\* increment
TapCounts(game, playerId, s, now) ==
  /\ game.status = "running"
  /\ ~(game.startTime = NullTime \/ game.endTime = NullTime)
  /\ ~(now < game.startTime \/ now > game.endTime)
  /\ MapHas(game.players, playerId)
  /\ MapGet(game.players, playerId).socketId = s

\* a tap sent for a player of the roster over that player's connection
OwnTap(game, playerId, s) ==
  /\ MapHas(game.players, playerId)
  /\ MapGet(game.players, playerId).socketId = s

\* socket.on('tap')
Tap(s, payload) ==
  /\ conn[s] = "open"
  /\ IF IsNull(payload)
     THEN /\ last' = [op |-> "tap", sock |-> s, gameId |-> "", playerId |-> EmptyId,
                      now |-> DateNow]
          /\ out' = <<>>
          /\ UNCHANGED <<games, windowTaps, lateTap>>
     ELSE
       LET gameId == GameIdOf(payload)
           playerId == PlayerIdOf(payload)
           now == DateNow
           own == gameId \in DOMAIN games /\ OwnTap(games[gameId], playerId, s)
       IN
       /\ windowTaps' =
            IF own /\ games[gameId].startTime <= now /\ now <= games[gameId].endTime
            THEN [windowTaps EXCEPT ![gameId][playerId] = @ + 1]
            ELSE windowTaps
       /\ lateTap' =
            IF own /\ games[gameId].status = "running" /\ now > games[gameId].endTime
            THEN [lateTap EXCEPT ![gameId] = TRUE]
            ELSE lateTap
       /\ last' = [op |-> "tap", sock |-> s, gameId |-> gameId, playerId |-> playerId,
                   now |-> now]
       /\ IF gameId \in DOMAIN games /\ TapCounts(games[gameId], playerId, s, now)
          THEN LET found == MapGet(games[gameId].players, playerId)
                   tapped == [found EXCEPT !.taps = @ + 1]
               IN  /\ found.taps < MaxTaps
                   /\ games' = [games EXCEPT ![gameId].players =
                                  MapSet(@, playerId, tapped)]
                   /\ out' = <<[event |-> "tap_update", gameId |-> gameId,
                                playerId |-> playerId, taps |-> tapped.taps]>>
          ELSE /\ out' = <<>>
               /\ UNCHANGED games
  /\ ack' = NoAck
  /\ UNCHANGED <<gameOrder, recentGames, timers, mono, wallOffset, conn>>
  /\ UNCHANGED sokoban

\* the inner loop of the disconnect handler: the first entry of the roster
\* whose socketId is s, or 0
FirstOf(players, s) ==
  IF \E i \in 1..Len(players) : players[i].socketId = s
  THEN CHOOSE i \in 1..Len(players) :
         /\ players[i].socketId = s
         /\ \A j \in 1..(i - 1) : players[j].socketId # s
  ELSE 0

\* the disconnect of s emptying the roster of every game s was part of
WithoutSocket_ClearsRoster(players, s) ==
  IF FirstOf(players, s) = 0 THEN players ELSE <<>>

\* the roster of a game after the disconnect of s
WithoutSocket(players, s) ==
  IF FirstOf(players, s) = 0 THEN players
  ELSE MapDelete(players, players[FirstOf(players, s)].playerId)

\* the lobby_update events of a disconnect, in the order of the Map `games`
RECURSIVE DisconnectUpdates(_, _)
DisconnectUpdates(keys, s) ==
  IF keys = <<>> THEN <<>>
  ELSE LET g == Head(keys)
           rest == DisconnectUpdates(Tail(keys), s)
       IN  IF FirstOf(games[g].players, s) = 0 THEN rest
           ELSE <<[event |-> "lobby_update", gameId |-> g,
                   players |-> LobbyPlayers(WithoutSocket(games[g].players, s))]>>
                \o rest

\* socket.on('disconnect')
Disconnect(s) ==
  /\ conn[s] = "open"
  /\ conn' = [conn EXCEPT ![s] = "closed"]
  /\ games' = [g \in DOMAIN games |->
                 [games[g] EXCEPT !.players = WithoutSocket(@, s)]]
  /\ out' = DisconnectUpdates(gameOrder, s)
  /\ last' = [op |-> "disconnect", sock |-> s]
  /\ ack' = NoAck
  /\ UNCHANGED <<gameOrder, recentGames, timers, mono, wallOffset, windowTaps, lateTap>>
  /\ UNCHANGED sokoban

\* the callback clearing every pending timeout, those of other games included
AfterFiring_AllCleared(pending, tm) == {}

\* a callback that ran stays in the timer list and runs again, as one armed
\* with setInterval would
AfterFiring_Repeating(pending, tm) == pending

\* setTimeout runs its callback once: the timer that fired is pending no more
AfterFiring(pending, tm) == pending \ {tm}

\* the callback leaving the status of the game as it found it
EndedGame_StatusKept(game) == game

\* the callback clearing the window of the round it ends
EndedGame_TimesCleared(game) ==
  [game EXCEPT !.status = "ended", !.startTime = NullTime, !.endTime = NullTime]

\* the callback sending the game back to the lobby
EndedGame_BackToLobby(game) == [game EXCEPT !.status = "lobby"]

\* the first statement of the callback: game.status = 'ended'
EndedGame(game) == [game EXCEPT !.status = "ended"]

\* the callback start_game hands to setTimeout
EndOfGame(tm) ==
  /\ tm \in timers
  /\ mono >= tm.due
  /\ LET gameId == tm.gameId
         game == EndedGame(games[gameId])
         results == computeResults(game)
     IN  /\ games' = [games EXCEPT ![gameId] = game]
         /\ out' = <<[event |-> "game_results", gameId |-> gameId,
                      startTime |-> game.startTime, endTime |-> game.endTime,
                      durationMs |-> TAP_WINDOW_MS,
                      scores |-> results.scores, winner |-> results.winner]>>
         /\ recentGames' = recordGameToLeaderboard(recentGames, gameId, game, DateNow)
         /\ last' = [op |-> "timeout", gameId |-> gameId]
  /\ timers' = AfterFiring(timers, tm)
  /\ ack' = NoAck
  /\ UNCHANGED <<gameOrder, mono, wallOffset, conn, windowTaps, lateTap>>
  /\ UNCHANGED sokoban

\* app.get('/leaderboard'): the response body is recorded in `out`
GetLeaderboard ==
  /\ out' = <<[event |-> "leaderboard",
               top |-> buildLeaderboardTopN(recentGames, TOP_N),
               recentGames |-> SliceLast(recentGames, RECENT_N)]>>
  /\ last' = [op |-> "leaderboard"]
  /\ ack' = NoAck
  /\ UNCHANGED <<games, gameOrder, recentGames, timers, mono, wallOffset, conn,
                 windowTaps, lateTap>>
  /\ UNCHANGED sokoban

\* time passes, up to an instant that matters to a pending timeout. Only a
\* started game compares the clock with an earlier reading, so the time the
\* server spends with no timeout pending is left out
ClockAdvance(t) ==
  /\ t > mono
  /\ t <= MaxTime
  /\ mono' = t
  /\ last' = [op |-> "clock"]
  /\ ack' = NoAck
  /\ out' = <<>>
  /\ UNCHANGED <<games, gameOrder, recentGames, timers, wallOffset, conn, windowTaps, lateTap>>
  /\ UNCHANGED sokoban

\* the system's wall clock is set back by 1 ms while a game is running
\* (Date.now() is not monotonic)
ClockSetBack ==
  /\ timers # {}
  /\ wallOffset > 0
  /\ wallOffset' = wallOffset - 1
  /\ last' = [op |-> "clock"]
  /\ ack' = NoAck
  /\ out' = <<>>
  /\ UNCHANGED <<games, gameOrder, recentGames, timers, mono, conn, windowTaps, lateTap>>
  /\ UNCHANGED sokoban

(* --------------------------- Sokoban actions --------------------------- *)
\* loadLevel(levelIndex)
LoadLevel(levelIndex) ==
  LET level == IF levelIndex >= Len(LEVELS) THEN 0 ELSE levelIndex
  IN  /\ currentLevel' = level
      /\ boxes' = BoxesOf(level)
      /\ player' = PlayerOf(level, player)
      /\ moveCount' = 0
      /\ pushCount' = 0
      /\ history' = <<>>

\* the Reset button and the key R
ResetLevel ==
  /\ LoadLevel(currentLevel)
  /\ last' = [op |-> "reset"]
  /\ inputs' = 0
  /\ UNCHANGED winTimers
  /\ UNCHANGED server

\* the Next Level button
NextLevel ==
  /\ LoadLevel(currentLevel + 1)
  /\ last' = [op |-> "next"]
  /\ inputs' = 0
  /\ UNCHANGED winTimers
  /\ UNCHANGED server

\* boxes.findIndex(b => b.x === x && b.y === y), counted from 1; 0 for -1
FindIndex(bs, x, y) ==
  IF \E i \in 1..Len(bs) : bs[i].x = x /\ bs[i].y = y
  THEN CHOOSE i \in 1..Len(bs) :
         /\ bs[i].x = x /\ bs[i].y = y
         /\ \A j \in 1..(i - 1) : ~(bs[j].x = x /\ bs[j].y = y)
  ELSE 0

OutOfBounds(level, x, y) ==
  x < 0 \/ x >= gridWidth(level) \/ y < 0 \/ y >= gridHeight(level)

\* canPushBox without the check of the wall
canPushBox_IgnoresWalls(level, bs, newBoxX, newBoxY) ==
  /\ ~OutOfBounds(level, newBoxX, newBoxY)
  /\ FindIndex(bs, newBoxX, newBoxY) = 0

\* canPushBox without the search for a box in the way
canPushBox_IgnoresBoxes(level, bs, newBoxX, newBoxY) ==
  /\ ~OutOfBounds(level, newBoxX, newBoxY)
  /\ grid(level, newBoxX, newBoxY) # TILE_TYPES.WALL

canPushBox(level, bs, newBoxX, newBoxY) ==
  /\ ~OutOfBounds(level, newBoxX, newBoxY)
  /\ grid(level, newBoxX, newBoxY) # TILE_TYPES.WALL
  /\ FindIndex(bs, newBoxX, newBoxY) = 0

\* checkWinCondition without the comparison of the two lengths
checkWinCondition_GoalsOnly(bs, goals) ==
  \A g \in 1..Len(goals) :
    \E b \in 1..Len(bs) : bs[b].x = goals[g].x /\ bs[b].y = goals[g].y

\* the condition under which checkWinCondition schedules showWinOverlay
checkWinCondition(bs, goals) ==
  /\ \A g \in 1..Len(goals) :
       \E b \in 1..Len(bs) : bs[b].x = goals[g].x /\ bs[b].y = goals[g].y
  /\ Len(bs) = Len(goals)

\* the snapshot saveState pushes
Snapshot ==
  [player |-> player, boxes |-> boxes, moveCount |-> moveCount,
   pushCount |-> pushCount]

\* saveState without the limit
saveState_Unbounded(h, snapshot) == Append(h, snapshot)

\* saveState dropping, at the limit, the snapshot it has just pushed
saveState_DropsNewest(h, snapshot) ==
  IF Len(Append(h, snapshot)) > HISTORY_LIMIT THEN h ELSE Append(h, snapshot)

\* saveState: push, then shift once the length exceeds the limit
saveState(h, snapshot) ==
  IF Len(Append(h, snapshot)) > HISTORY_LIMIT
  THEN Tail(Append(h, snapshot)) ELSE Append(h, snapshot)

\* tryMove(direction), for the arrow keys and WASD
TryMove(dir) ==
  LET direction == DIRECTIONS[dir]
      newX == player.x + direction.dx
      newY == player.y + direction.dy
      boxIndex == FindIndex(boxes, newX, newY)
      boxNewX == newX + direction.dx
      boxNewY == newY + direction.dy
      returnsEarly ==
        \/ OutOfBounds(currentLevel, newX, newY)
        \/ grid(currentLevel, newX, newY) = TILE_TYPES.WALL
        \/ boxIndex # 0 /\ ~canPushBox(currentLevel, boxes, boxNewX, boxNewY)
      pushed == IF boxIndex # 0
                THEN [boxes EXCEPT ![boxIndex] = [x |-> boxNewX, y |-> boxNewY]]
                ELSE boxes
      won == checkWinCondition(pushed, GoalsOf(currentLevel))
  IN  /\ IF returnsEarly
         THEN /\ last' = [op |-> "move", dir |-> dir, moved |-> FALSE, won |-> FALSE]
              /\ UNCHANGED <<player, boxes, moveCount, pushCount, history, winTimers>>
         ELSE /\ history' = saveState(history, Snapshot)
              /\ boxes' = pushed
              /\ pushCount' = IF boxIndex # 0 THEN pushCount + 1 ELSE pushCount
              /\ player' = [x |-> newX, y |-> newY]
              /\ moveCount' = moveCount + 1
              /\ winTimers' = IF won THEN winTimers + 1 ELSE winTimers
              /\ last' = [op |-> "move", dir |-> dir, moved |-> TRUE, won |-> won]
      /\ inputs' = inputs + 1
      /\ UNCHANGED currentLevel
      /\ UNCHANGED server

\* undo(), for the Undo button and Ctrl+Z
Undo ==
  /\ IF history = <<>>
     THEN UNCHANGED <<player, boxes, moveCount, pushCount, history>>
     ELSE LET previousState == history[Len(history)]
          IN  /\ history' = SubSeq(history, 1, Len(history) - 1)
              /\ player' = previousState.player
              /\ boxes' = previousState.boxes
              /\ moveCount' = previousState.moveCount
              /\ pushCount' = previousState.pushCount
  /\ last' = [op |-> "undo"]
  /\ inputs' = inputs + 1
  /\ UNCHANGED <<currentLevel, winTimers>>
  /\ UNCHANGED server

Dirs == DOMAIN DIRECTIONS

(* --------------------------- specifications ---------------------------- *)
\* the Sokoban page: up to MaxInputs moves and undos on each loaded level
NextSokoban ==
  \/ \E dir \in Dirs : inputs < MaxInputs /\ TryMove(dir)
  \/ inputs < MaxInputs /\ Undo
  \/ ResetLevel
  \/ NextLevel

SpecSokoban == Init /\ [][NextSokoban]_vars

\* the undo stack at its limit: the first level after the player has walked
\* left and right `n` times in the bottom row, then up to MaxUndoInputs more
\* moves and undos
WalkSnapshot(k) ==
  [player |-> [x |-> IF k % 2 = 0 THEN 2 ELSE 1, y |-> 3],
   boxes |-> BoxesOf(0), moveCount |-> k, pushCount |-> 0]

InitUndo ==
  /\ \E n \in {HISTORY_LIMIT - 1, HISTORY_LIMIT, HISTORY_LIMIT + 1} :
       /\ history = [i \in 1..(IF n < HISTORY_LIMIT THEN n ELSE HISTORY_LIMIT) |->
                       WalkSnapshot(i - 1 + (IF n > HISTORY_LIMIT THEN n - HISTORY_LIMIT ELSE 0))]
       /\ player = WalkSnapshot(n).player
       /\ moveCount = n
  /\ currentLevel = 0
  /\ boxes = BoxesOf(0)
  /\ pushCount = 0
  /\ winTimers = 0
  /\ inputs = 0
  /\ games = <<>>
  /\ gameOrder = <<>>
  /\ recentGames = <<>>
  /\ timers = {}
  /\ mono = 0
  /\ wallOffset = MaxSetBack
  /\ conn = [s \in Sockets |-> "new"]
  /\ last = [op |-> "move", dir |-> IF moveCount % 2 = 0 THEN "RIGHT" ELSE "LEFT",
             moved |-> TRUE, won |-> FALSE]
  /\ ack = NoAck
  /\ out = <<>>
  /\ windowTaps = [g \in GameIds |-> [p \in IdSpace |-> 0]]
  /\ lateTap = [g \in GameIds |-> FALSE]

NextUndo ==
  \/ \E dir \in Dirs : inputs < MaxUndoInputs /\ TryMove(dir)
  \/ inputs < MaxUndoInputs /\ Undo

SpecUndo == InitUndo /\ [][NextUndo]_vars

Next ==
  \/ \E s \in Sockets : Connect(s)
  \/ \E s \in Sockets, payload \in JoinPayloads, hasAck \in BOOLEAN :
       JoinGame(s, payload, hasAck)
  \/ \E s \in Sockets, payload \in StartPayloads, hasAck \in BOOLEAN :
       StartGame(s, payload, hasAck)
  \/ \E s \in Sockets, payload \in TapPayloads : Tap(s, payload)
  \/ \E s \in Sockets : Disconnect(s)
  \/ \E tm \in timers : EndOfGame(tm)
  \/ \E t \in Instants : ClockAdvance(t)

\* the server under a wall clock that only moves forward
Spec == Init /\ [][Next]_vars

\* the same handlers on well-formed payloads, under a wall clock that an
\* administrator or NTP may set back
NextWall ==
  \/ \E s \in Sockets : Connect(s)
  \/ \E s \in Sockets : JoinGame(s, [username |-> <<"a">>], TRUE)
  \/ \E s \in Sockets : StartGame(s, <<>>, TRUE)
  \/ \E s \in Sockets, p \in IdSpace : Tap(s, [playerId |-> p])
  \/ \E s \in Sockets : Disconnect(s)
  \/ \E tm \in timers : EndOfGame(tm)
  \/ \E t \in Instants : ClockAdvance(t)
  \/ ClockSetBack

SpecWall == Init /\ [][NextWall]_vars

\* the round that a start at this instant begins ends before the clock stops
CanFinish == mono + TAP_WINDOW_MS + GUARD_MS <= MaxTime

\* the handlers on well-formed payloads, with rounds started only while the
\* clock can still reach their end
NextLive ==
  \/ \E s \in Sockets : Connect(s)
  \/ \E s \in Sockets : JoinGame(s, [username |-> <<"a">>], TRUE)
  \/ \E s \in Sockets : CanFinish /\ StartGame(s, <<>>, TRUE)
  \/ \E s \in Sockets, p \in IdSpace : Tap(s, [playerId |-> p])
  \/ \E s \in Sockets : Disconnect(s)
  \/ \E tm \in timers : EndOfGame(tm)
  \/ \E t \in Instants : ClockAdvance(t)

\* time passes, and the event loop runs the callback of a timer that is due
Fairness ==
  /\ WF_vars(\E t \in Instants : ClockAdvance(t))
  /\ WF_vars(\E tm \in timers : EndOfGame(tm))

SpecLive == Init /\ [][NextLive]_vars /\ Fairness

\* computeResults on its own: a game of up to three players with any scores
\* whose timeout is due, and the callback that ranks them
ResultIds == {1, 2, 3}

RECURSIVE Rosters(_)
Rosters(n) ==
  IF n = 0 THEN {<<>>}
  ELSE Rosters(n - 1) \cup
       {Append(r, [playerId |-> p, username |-> <<"a">>, socketId |-> 1, taps |-> t]) :
          r \in {q \in Rosters(n - 1) : Len(q) = n - 1},
          p \in ResultIds, t \in 0..MaxTaps}

UniqueKeys(players) ==
  \A i, j \in 1..Len(players) : players[i].playerId = players[j].playerId => i = j

InitResults ==
  /\ \E players \in {r \in Rosters(3) : UniqueKeys(r)} :
       /\ games = [g \in {"default"} |->
                     [status |-> "running", players |-> players,
                      startTime |-> MaxSetBack, endTime |-> EndTimeOf(MaxSetBack),
                      timeoutHandle |-> [gameId |-> "default",
                                         due |-> TAP_WINDOW_MS + GUARD_MS]]]
       /\ windowTaps =
            [g \in GameIds |-> [p \in ResultIds |->
               IF g = "default" /\ MapHas(players, p) THEN MapGet(players, p).taps ELSE 0]]
  /\ gameOrder = <<"default">>
  /\ recentGames = <<>>
  /\ timers = {[gameId |-> "default", due |-> TAP_WINDOW_MS + GUARD_MS]}
  /\ mono = TAP_WINDOW_MS + GUARD_MS
  /\ wallOffset = MaxSetBack
  /\ conn = [s \in Sockets |-> IF s = 1 THEN "open" ELSE "new"]
  /\ last = [op |-> "clock"]
  /\ ack = NoAck
  /\ out = <<>>
  /\ lateTap = [g \in GameIds |-> FALSE]
  /\ SokobanInit

NextResults == \E tm \in timers : EndOfGame(tm)

SpecResults == InitResults /\ [][NextResults]_vars

\* the leaderboard on its own: a server that has finished 49 or 50 games,
\* with one more game whose timeout is due, and the GET /leaderboard route.
\* The first two games, in the rooms "default" and "g1", ended in the same
\* turn of the event loop, the wall clock set back by `back` ms in between;
\* since then "default" has been replayed back to back by one player, who
\* reached the highest score in every seventh game.
RoundEnd(k) == k * (TAP_WINDOW_MS + GUARD_MS)

PastRecord(i, back) ==
  LET score == [playerId |-> 1, username |-> <<"a">>,
                taps |-> IF i % 7 = 0 THEN MaxTaps ELSE i % MaxTaps]
  IN  [gameId |-> IF i = 2 THEN "g1" ELSE "default",
       timestamp |-> IF i = 1 THEN RoundEnd(1) + MaxSetBack
                     ELSE RoundEnd(i - 1) + MaxSetBack - back,
       winner |-> score,
       scores |-> <<score>>]

InitLeaderboard ==
  /\ \E n \in {MAX_LEADERBOARD_GAMES - 1, MAX_LEADERBOARD_GAMES},
        back \in 0..MaxSetBack,
        players \in {r \in Rosters(2) : UniqueKeys(r)} :
       LET handle == [gameId |-> "default", due |-> RoundEnd(n)]
       IN
       /\ recentGames = [i \in 1..n |-> PastRecord(i, back)]
       /\ mono = RoundEnd(n)
       /\ wallOffset = MaxSetBack - back
       /\ timers = {handle}
       /\ games = [g \in {"default", "g1"} |->
                     IF g = "default"
                     THEN [status |-> "running", players |-> players,
                           startTime |-> RoundEnd(n - 1) + MaxSetBack - back,
                           endTime |-> EndTimeOf(RoundEnd(n - 1) + MaxSetBack - back),
                           timeoutHandle |-> handle]
                     ELSE [status |-> "ended", players |-> <<>>,
                           startTime |-> MaxSetBack,
                           endTime |-> EndTimeOf(MaxSetBack),
                           timeoutHandle |-> [gameId |-> "g1", due |-> RoundEnd(1)]]]
       /\ windowTaps =
            [g \in GameIds |-> [p \in ResultIds |->
               IF g = "default" /\ MapHas(players, p) THEN MapGet(players, p).taps ELSE 0]]
  /\ gameOrder = <<"default", "g1">>
  /\ conn = [s \in Sockets |-> IF s = 1 THEN "open" ELSE "closed"]
  /\ last = [op |-> "clock"]
  /\ ack = NoAck
  /\ out = <<>>
  /\ lateTap = [g \in GameIds |-> FALSE]
  /\ SokobanInit

NextLeaderboard ==
  \/ \E tm \in timers : EndOfGame(tm)
  \/ GetLeaderboard

SpecLeaderboard == InitLeaderboard /\ [][NextLeaderboard]_vars

\* the leaderboard while its room goes on: from the same servers, the round
\* that is due ends, and the player connected on socket 1 replays it, taps
\* and disconnects
NextArchive ==
  \/ \E tm \in timers : EndOfGame(tm)
  \/ StartGame(1, <<>>, TRUE)
  \/ \E p \in IdSpace : Tap(1, [playerId |-> p])
  \/ Disconnect(1)

SpecArchive == InitLeaderboard /\ [][NextArchive]_vars

\* two rooms side by side: one connection joins, starts and taps in the
\* rooms "default" (named by an empty gameId) and "g1", in rounds that the
\* clock can see to their end
RoomInputs == {"", "g1"}

NextRooms ==
  \/ Connect(1)
  \/ \E g \in RoomInputs : JoinGame(1, [username |-> <<"a">>, gameId |-> g], TRUE)
  \/ \E g \in RoomInputs : CanFinish /\ StartGame(1, [gameId |-> g], TRUE)
  \/ \E g \in RoomInputs, p \in IdSpace : Tap(1, [playerId |-> p, gameId |-> g])
  \/ \E tm \in timers : EndOfGame(tm)
  \/ \E t \in Instants : ClockAdvance(t)

SpecRooms == Init /\ [][NextRooms]_vars

(* ------------------------------- claims -------------------------------- *)
\* the last step processed a tap sent for a roster player of its game over
\* that player's connection (a tap changes neither roster nor sockets)
LastIsOwnTap ==
  /\ last.op = "tap"
  /\ last.gameId \in DOMAIN games
  /\ OwnTap(games[last.gameId], last.playerId, last.sock)

TapsOf(gs, gameId, playerId) == MapGet(gs[gameId].players, playerId).taps

\* C1: a tap for a roster player over that player's connection, processed at
\* server time t, raises the player's score by exactly 1 iff the game is
\* running and startTime <= t <= endTime; otherwise the score stays as it was.
C1_TapCountsIffInWindow ==
  [][ (/\ last'.op = "tap"
       /\ last'.gameId \in DOMAIN games
       /\ OwnTap(games[last'.gameId], last'.playerId, last'.sock))
      => LET g == last'.gameId
             t == last'.now
             inWindow == /\ games[g].status = "running"
                         /\ games[g].startTime <= t
                         /\ t <= games[g].endTime
         IN  TapsOf(games', g, last'.playerId) =
               TapsOf(games, g, last'.playerId) + (IF inWindow THEN 1 ELSE 0) ]_vars

\* C1 witness: a tap processed at t = endTime was counted
C1_TapAtEndTimeCounted ==
  /\ LastIsOwnTap
  /\ last.now = games[last.gameId].endTime
  /\ out # <<>>
  /\ out[1].event = "tap_update"
  /\ out[1].taps = TapsOf(games, last.gameId, last.playerId)

\* C1, further cases reached: a tap at t = startTime was counted
C1_TapAtStartTimeCounted ==
  /\ LastIsOwnTap
  /\ last.now = games[last.gameId].startTime
  /\ out # <<>>

\* C1, further cases reached: a tap at t = startTime - 1 of a running game
\* was ignored
C1_TapBeforeStartIgnored ==
  /\ LastIsOwnTap
  /\ games[last.gameId].status = "running"
  /\ last.now = games[last.gameId].startTime - 1
  /\ out = <<>>

\* C1, further cases reached: a tap at t = endTime + 1 of a running game was
\* ignored
C1_TapAfterEndIgnored ==
  /\ LastIsOwnTap
  /\ games[last.gameId].status = "running"
  /\ last.now = games[last.gameId].endTime + 1
  /\ out = <<>>

\* the game_results broadcast of the last step, which ran a timeout
LastResults == out[1]

\* C2: the score the game_results broadcast reports for each player still in
\* the roster is the number of that player's taps of the round processed at
\* server times within [startTime, endTime]; a tap processed after endTime,
\* the guard delay included, is not in it.
C2_ResultsCountWindowTaps ==
  last.op = "timeout" =>
    LET g == last.gameId
        scores == LastResults.scores
    IN  /\ LastResults.event = "game_results"
        /\ LastResults.gameId = g
        /\ Len(scores) = Len(games[g].players)
        /\ \A i \in 1..Len(scores) :
             /\ MapHas(games[g].players, scores[i].playerId)
             /\ scores[i].taps = windowTaps[g][scores[i].playerId]

\* C2 witness: the first player to join tapped more often in the window than
\* the second, a tap arrived in the guard delay, and the results report the
\* window's counts with the first player as the winner
C2_ResultsAfterLateTap ==
  /\ last.op = "timeout"
  /\ lateTap[last.gameId]
  /\ Len(games[last.gameId].players) = 2
  /\ Len(LastResults.scores) = 2
  /\ LastResults.scores[1].playerId = games[last.gameId].players[1].playerId
  /\ LastResults.scores[1].taps = MaxTaps
  /\ LastResults.scores[2].taps = MaxTaps - 1
  /\ LastResults.winner = LastResults.scores[1]

\* C3: a tap that names a roster player and arrives on a connection other than
\* the one recorded for that player changes no score and nothing else of any
\* game, whatever the status and the server time.
C3_ForeignTapChangesNothing ==
  [][ (/\ last'.op = "tap"
       /\ last'.gameId \in DOMAIN games
       /\ MapHas(games[last'.gameId].players, last'.playerId)
       /\ MapGet(games[last'.gameId].players, last'.playerId).socketId # last'.sock)
      => /\ games' = games
         /\ gameOrder' = gameOrder
         /\ recentGames' = recentGames
         /\ timers' = timers
         /\ out' = <<>> ]_vars

\* C3 witness: such a tap was processed while the game was running and the
\* server time was inside the window
C3_ForeignTapInWindow ==
  /\ last.op = "tap"
  /\ last.gameId \in DOMAIN games
  /\ MapHas(games[last.gameId].players, last.playerId)
  /\ MapGet(games[last.gameId].players, last.playerId).socketId # last.sock
  /\ games[last.gameId].status = "running"
  /\ games[last.gameId].startTime <= last.now
  /\ last.now <= games[last.gameId].endTime
  /\ out = <<>>

\* the place of a player in the roster: the order in which the entries of
\* the Map were inserted, i.e. the order of the joins
Place(players, playerId) ==
  CHOOSE i \in 1..Len(players) : players[i].playerId = playerId

\* C4: the ranked list of computeResults holds exactly the entries of the
\* roster, is sorted by score non-increasing, and among equal scores lists the
\* earlier-joined player first.
C4_RankedList ==
  last.op = "timeout" =>
    LET players == games[last.gameId].players
        scores == LastResults.scores
    IN  /\ Len(scores) = Len(players)
        /\ \A i \in 1..Len(players) :
             \E j \in 1..Len(scores) :
               scores[j] = [playerId |-> players[i].playerId,
                            username |-> players[i].username,
                            taps |-> players[i].taps]
        /\ \A i, j \in 1..Len(scores) :
             i < j =>
               /\ scores[i].taps >= scores[j].taps
               /\ scores[i].taps = scores[j].taps =>
                    Place(players, scores[i].playerId) < Place(players, scores[j].playerId)

\* C4 witness: three players ranked, the second to join first, the other two
\* tied and in the order of their joins
C4_ReorderedWithTie ==
  /\ last.op = "timeout"
  /\ Len(games[last.gameId].players) = 3
  /\ LastResults.scores[1].playerId = games[last.gameId].players[2].playerId
  /\ LastResults.scores[2].playerId = games[last.gameId].players[1].playerId
  /\ LastResults.scores[3].playerId = games[last.gameId].players[3].playerId
  /\ LastResults.scores[2].taps = LastResults.scores[3].taps
  /\ LastResults.scores[1].taps > LastResults.scores[2].taps

\* C5: the winner of a round's results is null iff the roster is empty when
\* the round ends; otherwise it is the player with the highest score and,
\* among those with that score, the earliest to join, also when every score
\* is zero.
C5_Winner ==
  last.op = "timeout" =>
    LET players == games[last.gameId].players
        winner == LastResults.winner
    IN  /\ IsNull(winner) <=> players = <<>>
        /\ players # <<>> =>
             \E i \in 1..Len(players) :
               /\ winner = [playerId |-> players[i].playerId,
                            username |-> players[i].username,
                            taps |-> players[i].taps]
               /\ \A j \in 1..Len(players) : players[j].taps <= players[i].taps
               /\ \A j \in 1..(i - 1) : players[j].taps < players[i].taps

\* C5 witness: three players, every score zero, and the first to join wins
C5_AllZeroFirstWins ==
  /\ last.op = "timeout"
  /\ Len(games[last.gameId].players) = 3
  /\ \A i \in 1..3 : games[last.gameId].players[i].taps = 0
  /\ ~IsNull(LastResults.winner)
  /\ LastResults.winner.playerId = games[last.gameId].players[1].playerId

\* C5, further case reached: the roster was empty and the winner is null
C5_EmptyRosterNoWinner ==
  /\ last.op = "timeout"
  /\ games[last.gameId].players = <<>>
  /\ IsNull(LastResults.winner)

\* what the acknowledgement callback of a rejected event receives
Rejection(hasAck, error) ==
  IF hasAck THEN [ok |-> FALSE, error |-> error] ELSE NoAck

\* C6: a start on a game whose roster is empty and whose status is not
\* running fails with no_players and leaves the game's status, startTime,
\* endTime and timer as they were.
C6_StartWithoutPlayers ==
  [][ (/\ last'.op = "start_game"
       /\ last'.gameId \in DOMAIN games
       /\ games[last'.gameId].players = <<>>
       /\ games[last'.gameId].status # "running")
      => /\ ack' = Rejection(last'.hasAck, "no_players")
         /\ games'[last'.gameId].status = games[last'.gameId].status
         /\ games'[last'.gameId].startTime = games[last'.gameId].startTime
         /\ games'[last'.gameId].endTime = games[last'.gameId].endTime
         /\ games'[last'.gameId].timeoutHandle = games[last'.gameId].timeoutHandle
         /\ timers' = timers
         /\ out' = <<>> ]_vars

\* C6 witness: a start was refused with no_players on a game that had ended
\* and lost all its players
C6_NoPlayersAfterEnd ==
  /\ last.op = "start_game"
  /\ ack = [ok |-> FALSE, error |-> "no_players"]
  /\ last.gameId \in DOMAIN games
  /\ games[last.gameId].status = "ended"
  /\ games[last.gameId].players = <<>>
  /\ ~IsNull(games[last.gameId].timeoutHandle)

\* C7: once a start has succeeded, in that state and in every later one,
\* startTime < endTime and endTime - startTime = 15000 ms exactly.
C7_WindowLength ==
  \A g \in DOMAIN games :
    games[g].status # "lobby" =>
      /\ games[g].startTime # NullTime
      /\ games[g].endTime # NullTime
      /\ games[g].startTime < games[g].endTime
      /\ games[g].endTime - games[g].startTime = 15000

\* C7 witness: a second start of the same game has just succeeded
C7_StartedAgain ==
  /\ last.op = "start_game"
  /\ last.gameId \in DOMAIN games
  /\ ack = [ok |-> TRUE, gameId |-> last.gameId,
            startTime |-> games[last.gameId].startTime, durationMs |-> 15000]
  /\ games[last.gameId].status = "running"
  /\ recentGames # <<>>

\* C8: a start on a running game is rejected with already_running and leaves
\* the game's startTime, endTime, roster, scores and armed timer as they were.
C8_StartWhileRunning ==
  [][ (/\ last'.op = "start_game"
       /\ last'.gameId \in DOMAIN games
       /\ games[last'.gameId].status = "running")
      => /\ ack' = Rejection(last'.hasAck, "already_running")
         /\ games'[last'.gameId] = games[last'.gameId]
         /\ timers' = timers
         /\ out' = <<>> ]_vars

\* C8 witness: a start was refused with already_running while a player of
\* the running round had a score and the round's timer was pending
C8_RefusedWithScores ==
  /\ last.op = "start_game"
  /\ last.gameId \in DOMAIN games
  /\ ack = [ok |-> FALSE, error |-> "already_running"]
  /\ games[last.gameId].status = "running"
  /\ games[last.gameId].timeoutHandle \in timers
  /\ \E i \in 1..Len(games[last.gameId].players) :
       games[last.gameId].players[i].taps > 0

\* the roster and the status a join_game for gameId finds, after
\* createGameIfMissing
RosterFound(gameId) == IF gameId \in DOMAIN games THEN games[gameId].players ELSE <<>>

StatusFound(gameId) == IF gameId \in DOMAIN games THEN games[gameId].status ELSE "lobby"

\* the step stored the player of the join in `last` with score 0 under some
\* playerId, acknowledged it, and left every other entry of the roster alone
JoinStored(name) ==
  LET g == last'.gameId
      before == RosterFound(g)
      after == games'[g].players
  IN  \E pid \in IdSpace :
        /\ last'.hasAck => ack' = [ok |-> TRUE, playerId |-> pid, gameId |-> g]
        /\ Len(after) \in {Len(before), Len(before) + 1}
        /\ \E i \in 1..Len(after) :
             after[i] = [playerId |-> pid, username |-> name,
                         socketId |-> last'.sock, taps |-> 0]
        /\ \A i \in 1..Len(before) :
             before[i].playerId # pid => after[i] = before[i]

\* the step refused the join in `last` with game_already_started and left the
\* roster as it was
JoinRefused ==
  /\ ack' = Rejection(last'.hasAck, "game_already_started")
  /\ games'[last'.gameId].players = games[last'.gameId].players

\* C9: a join whose display name is not empty after trimming is rejected with
\* game_already_started, the roster unchanged, when the game is running or
\* ended, and is accepted and stored with score 0 when the game is in the
\* lobby. (A join whose name is empty or blank is refused with
\* username_required first, whatever the status.)
C9_JoinByStatus ==
  [][ (/\ last'.op = "join_game"
       /\ Trim(last'.raw) # <<>>)
      => IF StatusFound(last'.gameId) = "lobby"
         THEN JoinStored(Trim(last'.raw))
         ELSE JoinRefused ]_vars

\* C9 as first stated: every join on a running or ended game is rejected with
\* game_already_started, and every join with a non-empty display name on a
\* game in the lobby is accepted and stored with score 0.
C9_AsStated ==
  [][ (/\ last'.op = "join_game"
       /\ last'.gameId \in DOMAIN games)
      => /\ games[last'.gameId].status # "lobby" => JoinRefused
         /\ (games[last'.gameId].status = "lobby" /\ last'.raw # <<>>)
              => JoinStored(Trim(last'.raw)) ]_vars

\* C9 witness: a join with a name was refused on a game that had ended
C9_RefusedAfterEnd ==
  /\ last.op = "join_game"
  /\ Trim(last.raw) # <<>>
  /\ last.gameId \in DOMAIN games
  /\ games[last.gameId].status = "ended"
  /\ ack = [ok |-> FALSE, error |-> "game_already_started"]

\* C9, further case reached: a join with a name was accepted in the lobby
C9_AcceptedInLobby ==
  /\ last.op = "join_game"
  /\ last.gameId \in DOMAIN games
  /\ games[last.gameId].status = "lobby"
  /\ "playerId" \in DOMAIN ack
  /\ MapHas(games[last.gameId].players, ack.playerId)

\* C10: every accepted join on a game in the lobby adds one entry to the
\* roster under a playerId no entry of the roster carries yet, so that the
\* roster grows by one per accepted join and no entry is overwritten.
C10_JoinAddsFreshEntry ==
  [][ (/\ last'.op = "join_game"
       /\ out' # <<>>)
      => LET before == RosterFound(last'.gameId)
             after == games'[last'.gameId].players
         IN  /\ Len(after) = Len(before) + 1
             /\ ~MapHas(before, after[Len(after)].playerId)
             /\ UniqueKeys(after) ]_vars

\* a step in which the timeout of some game ran
EndStep == last'.op = "timeout"

\* the record the callback hands to the leaderboard for the game as it is
\* after the step
RecordOf(gameId, game, now) ==
  [gameId |-> gameId, timestamp |-> now,
   winner |-> computeResults(game).winner, scores |-> computeResults(game).scores]

C12_ScoresZeroAfterStart ==
  (last.op = "start_game" /\ out # <<>>) =>
    /\ out[1].event = "game_start"
    /\ games[last.gameId].status = "running"
    /\ \A i \in 1..Len(games[last.gameId].players) :
         games[last.gameId].players[i].taps = 0

\* C12 witness: a replay has started with a player in the roster whom the
\* record of the previous round lists with a score above 0
C12_ReplayAfterScores ==
  /\ last.op = "start_game"
  /\ out # <<>>
  /\ recentGames # <<>>
  /\ \E i \in 1..Len(games[last.gameId].players) :
       \E j \in 1..Len(recentGames[1].scores) :
         /\ recentGames[1].gameId = last.gameId
         /\ recentGames[1].scores[j].playerId = games[last.gameId].players[i].playerId
         /\ recentGames[1].scores[j].taps > 0

\* the step appended `record` to a leaderboard of fewer than 50 records, or
\* to one of 50, whose first (earliest appended) record it removed; the
\* records that stay keep their order
AppendedFifo(before, after, record) ==
  IF Len(before) < 50
  THEN after = Append(before, record)
  ELSE /\ Len(after) = 50
       /\ \A i \in 1..49 : after[i] = before[i + 1]
       /\ after[50] = record

Count(a, e) == Cardinality({i \in 1..Len(a) : a[i] = e})

\* the leaderboard order: higher score first, then the earlier timestamp
Before(a, b) ==
  \/ a.taps > b.taps
  \/ a.taps = b.taps /\ a.timestamp < b.timestamp

\* C14: the `top` of GET /leaderboard holds min(10, total) of the entries of
\* all retained records, ordered by score descending and, among equal scores,
\* by earlier timestamp first; no entry left out comes before one that is in;
\* and the request leaves the stored history and the games as they were.
C14_TopN ==
  [][ last'.op = "leaderboard" =>
        LET all == Flatten(recentGames)
            top == out'[1].top
        IN  /\ recentGames' = recentGames
            /\ games' = games
            /\ Len(top) = (IF Len(all) < 10 THEN Len(all) ELSE 10)
            /\ \A i, j \in 1..Len(top) : i < j => ~Before(top[j], top[i])
            /\ \A i \in 1..Len(top) : Count(top, top[i]) <= Count(all, top[i])
            /\ \A i \in 1..Len(all) :
                 (top # <<>> /\ Before(all[i], top[Len(top)]))
                   => Count(top, all[i]) = Count(all, all[i]) ]_vars

\* C14 witness: a request answered from 50 records with more than 10 entries,
\* whose top has one entry of the game that ended last, entries of equal score
\* from different games, and lacks the entries of the lowest score
C14_TopTenOfMany ==
  /\ last.op = "leaderboard"
  /\ Len(recentGames) = 50
  /\ Len(Flatten(recentGames)) > 10
  /\ Len(out[1].top) = 10
  /\ \E i \in 1..10 : out[1].top[i].timestamp = recentGames[50].timestamp
  /\ \E i, j \in 1..10 :
       /\ out[1].top[i].taps = out[1].top[j].taps
       /\ out[1].top[i].timestamp < out[1].top[j].timestamp
       /\ i < j
  /\ \A i \in 1..10 : out[1].top[i].taps > 0

Running(g) == g \in DOMAIN games /\ games[g].status = "running"

\* the timeout of game g has just run: the game is ended and game_results
\* was emitted
ResultsSent(g) ==
  /\ last.op = "timeout"
  /\ last.gameId = g
  /\ games[g].status = "ended"
  /\ Len(out) = 1
  /\ out[1].event = "game_results"
  /\ out[1].gameId = g

\* C15: given that time passes and a due timer fires, a game that is running
\* eventually is ended with game_results emitted, whatever joins, starts, taps
\* and disconnects are processed in between, also when every player
\* disconnects during the round. (Stated for the room the events name.)
C15_RunningEventuallyEnds ==
  Running(GameIdOf(<<>>)) ~> ResultsSent(GameIdOf(<<>>))

\* C15 witness: the results of a round were sent after every connection had
\* closed and the roster had become empty during the round
C15_EndedAfterAllLeft ==
  /\ ResultsSent("default")
  /\ games["default"].players = <<>>
  /\ \A s \in Sockets : conn[s] = "closed"
  /\ out[1].scores = <<>>

\* C16: the startTime a successful start acknowledges and broadcasts in
\* game_start is the one it stores on the game, and the stored endTime is that
\* startTime plus the duration it announces; while the game is running no
\* step changes the stored pair; the tap check compares with the stored pair;
\* and game_results carries the stored pair.
C16_OneWindowPerRound ==
  [][ /\ (last'.op = "start_game" /\ out' # <<>>) =>
           LET g == last'.gameId
           IN  /\ out'[1].event = "game_start"
               /\ out'[1].startTime = games'[g].startTime
               /\ out'[1].startTime + out'[1].durationMs = games'[g].endTime
               /\ last'.hasAck =>
                    /\ ack'.startTime = games'[g].startTime
                    /\ ack'.startTime + ack'.durationMs = games'[g].endTime
      /\ \A g \in DOMAIN games :
           games[g].status = "running" =>
             /\ games'[g].startTime = games[g].startTime
             /\ games'[g].endTime = games[g].endTime
      /\ (/\ last'.op = "tap"
          /\ last'.gameId \in DOMAIN games
          /\ games[last'.gameId].status = "running"
          /\ OwnTap(games[last'.gameId], last'.playerId, last'.sock)) =>
           (out' # <<>> <=>
              /\ games[last'.gameId].startTime <= last'.now
              /\ last'.now <= games[last'.gameId].endTime)
      /\ EndStep =>
           /\ out'[1].startTime = games[last'.gameId].startTime
           /\ out'[1].endTime = games[last'.gameId].endTime ]_vars

\* C16 witness: the results of a round in which a tap was counted and during
\* which the wall clock was set back carry the startTime and endTime stored
\* at the start
C16_ResultsCarryStoredWindow ==
  /\ ResultsSent("default")
  /\ wallOffset < MaxSetBack
  /\ Len(recentGames) = 1
  /\ out[1].startTime = MaxSetBack
  /\ out[1].startTime = games["default"].startTime
  /\ out[1].endTime = games["default"].endTime
  /\ \E p \in IdSpace : windowTaps["default"][p] > 0

\* the changes of status the claim allows
StatusStep(from, to) ==
  \/ to = from
  \/ from = "lobby" /\ to = "running"
  \/ from = "running" /\ to = "ended"
  \/ from = "ended" /\ to = "running"

\* C20: in every step the status of a game stays as it is or goes from lobby
\* to running, from running to ended or from ended to running; a game never
\* returns to the lobby, never goes from the lobby to ended, is never removed,
\* and a game created by the step is in the lobby.
C20_StatusSteps ==
  [][ /\ DOMAIN games \subseteq DOMAIN games'
      /\ \A g \in DOMAIN games' :
           IF g \in DOMAIN games
           THEN StatusStep(games[g].status, games'[g].status)
           ELSE games'[g].status = "lobby" ]_vars

\* C20 witness: a game that had been running and had ended is running again
C20_RunningAgainAfterEnded ==
  /\ Running("default")
  /\ games["default"].startTime > TAP_WINDOW_MS
  /\ \E i \in 1..Len(recentGames) :
       /\ recentGames[i].gameId = "default"
       /\ recentGames[i].timestamp <= games["default"].startTime

\* a box lies on the cell (x, y)
BoxOn(bs, x, y) == \E i \in 1..Len(bs) : bs[i].x = x /\ bs[i].y = y

\* the cell (x, y) is inside the grid, is no wall and holds no box
FreeCell(level, bs, x, y) ==
  /\ 0 <= x /\ x < gridWidth(level)
  /\ 0 <= y /\ y < gridHeight(level)
  /\ CharAt(level, x, y) # "#"
  /\ ~BoxOn(bs, x, y)

\* C17: when the player moves toward a cell that holds a box, then if the
\* cell beyond it in the same direction is inside the grid, no wall and
\* without a box, that box moves there and the player takes its old cell;
\* otherwise neither the player nor any box moves. No move changes more than
\* one box, and a box that moves is the one the player stepped toward, moved
\* one cell in the player's direction.
C17_PushOrStay ==
  [][ last'.op = "move" =>
        LET d == DIRECTIONS[last'.dir]
            tx == player.x + d.dx
            ty == player.y + d.dy
            changed == {i \in 1..Len(boxes) : boxes'[i] # boxes[i]}
        IN  /\ Len(boxes') = Len(boxes)
            /\ Cardinality(changed) <= 1
            /\ \A i \in changed :
                 /\ boxes[i] = [x |-> tx, y |-> ty]
                 /\ boxes'[i] = [x |-> tx + d.dx, y |-> ty + d.dy]
                 /\ player' = boxes[i]
            /\ BoxOn(boxes, tx, ty) =>
                 IF FreeCell(currentLevel, boxes, tx + d.dx, ty + d.dy)
                 THEN /\ player' = [x |-> tx, y |-> ty]
                      /\ Cardinality(changed) = 1
                      /\ BoxOn(boxes', tx + d.dx, ty + d.dy)
                      /\ ~BoxOn(boxes', tx, ty)
                 ELSE /\ player' = player
                      /\ boxes' = boxes ]_vars

\* C17 witness: the last move pushed a box; before it, another push had been
\* refused
C17_BoxPushed ==
  /\ last.op = "move"
  /\ last.moved
  /\ history # <<>>
  /\ history[Len(history)].boxes # boxes
  /\ pushCount = 1
  /\ inputs > moveCount

\* C17, further case reached: a push toward a box whose far side holds
\* another box was refused
C17_PushIntoBoxRefused ==
  /\ last.op = "move"
  /\ ~last.moved
  /\ BoxOn(boxes, player.x + DIRECTIONS[last.dir].dx, player.y + DIRECTIONS[last.dir].dy)
  /\ BoxOn(boxes, player.x + 2 * DIRECTIONS[last.dir].dx,
                  player.y + 2 * DIRECTIONS[last.dir].dy)

\* every goal cell of the level holds a box
GoalsAllFilled ==
  \A x \in 0..(gridWidth(currentLevel) - 1), y \in 0..(gridHeight(currentLevel) - 1) :
    CharAt(currentLevel, x, y) \in {".", "+", "*"} => BoxOn(boxes, x, y)

\* C18: in every shipped level, whenever a move leaves every goal cell
\* occupied by a box, the level is complete: the move has scheduled the win
\* overlay.
C18_FilledGoalsWin ==
  (last.op = "move" /\ last.moved /\ GoalsAllFilled) => (last.won /\ winTimers > 0)

\* the stack `after` is `before` with `snapshot` pushed, cut to its last 100
PushedCapped(before, after, snapshot) ==
  IF Len(before) < 100
  THEN after = Append(before, snapshot)
  ELSE /\ Len(after) = 100
       /\ after[100] = snapshot
       /\ \A i \in 1..99 : after[i] = before[i + 1]

\* C19: a successful move pushes the player, the boxes and the two counters
\* as they were just before it onto the history, an undo pops the latest
\* snapshot and restores those four from it, so that an undo after a move
\* restores the values just before that move; an undo with an empty history
\* changes nothing; the history never holds more than 100 snapshots.
C19_UndoRestores ==
  /\ Len(history) <= 100
  /\ [][ /\ Len(history') <= 100
         /\ (last'.op = "move" /\ last'.moved) =>
              PushedCapped(history, history',
                           [player |-> player, boxes |-> boxes,
                            moveCount |-> moveCount, pushCount |-> pushCount])
         /\ (last'.op = "move" /\ ~last'.moved) => history' = history
         /\ last'.op = "undo" =>
              IF history = <<>>
              THEN /\ player' = player /\ boxes' = boxes
                   /\ moveCount' = moveCount /\ pushCount' = pushCount
                   /\ history' = <<>>
              ELSE /\ player' = history[Len(history)].player
                   /\ boxes' = history[Len(history)].boxes
                   /\ moveCount' = history[Len(history)].moveCount
                   /\ pushCount' = history[Len(history)].pushCount
                   /\ history' = SubSeq(history, 1, Len(history) - 1) ]_vars

\* C19 witness: a move made with 100 snapshots on the history, which cost
\* the oldest of them, has been undone: 99 snapshots are left, the first of
\* them the one taken before the second move, and player, boxes and counters
\* are those before the undone move
C19_MoveUndoneAtLimit ==
  /\ last.op = "undo"
  /\ inputs = 2
  /\ Len(history) = 99
  /\ history[1].moveCount = 1
  /\ moveCount = 100
  /\ pushCount = 0
  /\ boxes = BoxesOf(0)
  /\ player = [x |-> 2, y |-> 3]

\* C19, further case reached: a push made with 100 snapshots on the history
\* left 100 snapshots, the latest of them the state before the push
C19_PushAtLimit ==
  /\ last.op = "move"
  /\ Len(history) = 100
  /\ history[1].moveCount = 1
  /\ history[100] = [player |-> [x |-> 2, y |-> 3], boxes |-> BoxesOf(0),
                     moveCount |-> 100, pushCount |-> 0]
  /\ pushCount = 1
  /\ boxes # BoxesOf(0)

\* C19, further case reached: an undo found the history empty
C19_UndoOnEmptyHistory ==
  /\ last.op = "undo"
  /\ history = <<>>
  /\ inputs = 1

\* the timers of a room that are armed and have not fired
PendingOf(g) == {tm \in timers : tm.gameId = g}

\* C21: in every reachable state a room has at most one pending end timer:
\* a room that is running has exactly the timer its timeoutHandle names
\* pending, and a room that is not running, or does not exist, has none
C21_OneTimerPerRoom ==
  \A g \in GameIds :
    /\ Cardinality(PendingOf(g)) <= 1
    /\ IF g \in DOMAIN games /\ games[g].status = "running"
       THEN PendingOf(g) = {games[g].timeoutHandle}
       ELSE PendingOf(g) = {}

\* a room whose round ended was started again, and the only pending timer is
\* the one of the second round
C21_SecondRoundArmed ==
  /\ recentGames # <<>>
  /\ "default" \in DOMAIN games
  /\ games["default"].status = "running"
  /\ mono >= TAP_WINDOW_MS + GUARD_MS
  /\ timers = {[gameId |-> "default", due |-> mono + TAP_WINDOW_MS + GUARD_MS]}

\* a step that processed a start_game for a room that was running
StartOnRunning ==
  /\ last'.op = "start_game"
  /\ last'.gameId \in DOMAIN games
  /\ games[last'.gameId].status = "running"

\* C22 as stated: re-issuing start on a running room cancels the timer that
\* was armed and arms a new one, due a window and the guard after the start
C22_AsStated ==
  [][ StartOnRunning =>
        LET g == last'.gameId
            rearmed == [gameId |-> g, due |-> mono + TAP_WINDOW_MS + GUARD_MS]
        IN  /\ rearmed \in timers'
            /\ games'[g].timeoutHandle = rearmed
            /\ games[g].timeoutHandle # rearmed => games[g].timeoutHandle \notin timers' ]_vars

\* C22 (amended): a start on a running room is refused with already_running
\* and neither cancels nor arms a timer: the timer of the round stays pending
\* and stays the room's timeoutHandle. A start that succeeds finds the room in
\* lobby or ended with no timer pending (the previous one has fired), and arms
\* one timer, which becomes the room's timeoutHandle and its only pending timer.
C22_StartRearmsOnlyAfterEnd ==
  [][ /\ StartOnRunning =>
           LET g == last'.gameId
           IN  /\ ack' = Rejection(last'.hasAck, "already_running")
               /\ out' = <<>>
               /\ timers' = timers
               /\ games'[g].timeoutHandle = games[g].timeoutHandle
               /\ games'[g].timeoutHandle \in timers'
      /\ (last'.op = "start_game" /\ out' # <<>>) =>
           LET g == last'.gameId
               armed == [gameId |-> g, due |-> mono + TAP_WINDOW_MS + GUARD_MS]
           IN  /\ StatusFound(g) \in {"lobby", "ended"}
               /\ PendingOf(g) = {}
               /\ timers' = timers \cup {armed}
               /\ games'[g].timeoutHandle = armed
               /\ {tm \in timers' : tm.gameId = g} = {armed} ]_vars

\* C22 witness: a start was refused at the end of the window of a running
\* round, whose timer is still the only one pending
C22_RefusedLateInRound ==
  /\ last.op = "start_game"
  /\ ack = [ok |-> FALSE, error |-> "already_running"]
  /\ mono = TAP_WINDOW_MS
  /\ timers = {[gameId |-> "default", due |-> TAP_WINDOW_MS + GUARD_MS]}
  /\ games["default"].timeoutHandle \in timers

\* C23: a record stored in the leaderboard is never changed: a step that is
\* not the end of a round (a replay start, a tap, a disconnect) leaves the
\* leaderboard as it is, and the end of a round leaves every stored record as
\* it was, one place earlier if the first record was evicted from a full
\* leaderboard, and evicts nothing else
C23_StoredRecordsFrozen ==
  [][ IF EndStep
      THEN LET k == Len(recentGames) + 1 - Len(recentGames')
           IN  /\ k \in {0, 1}
               /\ k = 1 => Len(recentGames) = MAX_LEADERBOARD_GAMES
               /\ \A i \in (1 + k)..Len(recentGames) : recentGames'[i - k] = recentGames[i]
      ELSE recentGames' = recentGames ]_vars

\* C23 witness: after a round was recorded in a full leaderboard, its room
\* was replayed and a player listed in the record tapped: the player's score
\* in the room differs from the one in the stored record
C23_TapAfterRecord ==
  /\ last.op = "tap"
  /\ out # <<>>
  /\ Len(recentGames) = MAX_LEADERBOARD_GAMES
  /\ recentGames[1].gameId = "g1"
  /\ LET stored == recentGames[Len(recentGames)]
         live == games[last.gameId].players
     IN  /\ stored.gameId = last.gameId
         /\ \E i \in 1..Len(stored.scores) :
              /\ stored.scores[i].playerId = last.playerId
              /\ stored.scores[i].taps # MapGet(live, last.playerId).taps

\* after a round was recorded, its room was replayed and the player left it
\* with a score: the stored record still lists the player
C23_LeftAfterRecord ==
  /\ last.op = "disconnect"
  /\ out # <<>>
  /\ Len(recentGames) = MAX_LEADERBOARD_GAMES
  /\ recentGames[1].gameId = "g1"
  /\ games["default"].status = "running"
  /\ games["default"].players = <<>>
  /\ recentGames[Len(recentGames)].gameId = "default"
  /\ recentGames[Len(recentGames)].scores # <<>>

\* C24: a disconnect changes no room's status, startTime, endTime or
\* timeoutHandle and no pending timer, creates and removes no room, and leaves
\* the entry of every participant connected on another socket as it was, score
\* included; what it leaves in a roster was there before, in the same order
C24_DisconnectFrame ==
  [][ last'.op = "disconnect" =>
        /\ timers' = timers
        /\ DOMAIN games' = DOMAIN games
        /\ \A g \in DOMAIN games :
             LET before == games[g].players
                 after == games'[g].players
             IN  /\ games'[g].status = games[g].status
                 /\ games'[g].startTime = games[g].startTime
                 /\ games'[g].endTime = games[g].endTime
                 /\ games'[g].timeoutHandle = games[g].timeoutHandle
                 /\ SelectSeq(after, LAMBDA p : p.socketId # last'.sock)
                      = SelectSeq(before, LAMBDA p : p.socketId # last'.sock)
                 /\ \A j \in 1..Len(after) : \E i \in 1..Len(before) : after[j] = before[i] ]_vars

\* C24 witness: a participant of a running round disconnected; the round is
\* still running with its timer pending, and the participant who stays has
\* the score reached before
C24_LeftRunningRound ==
  /\ last.op = "disconnect"
  /\ out # <<>>
  /\ games["default"].status = "running"
  /\ games["default"].timeoutHandle \in timers
  /\ \E i \in 1..Len(games["default"].players) :
       /\ games["default"].players[i].socketId # last.sock
       /\ games["default"].players[i].taps > 0

\* the last participant of a running round disconnected: the round is still
\* running, with an empty roster and its timer pending
C24_RunningWithEmptyRoster ==
  /\ last.op = "disconnect"
  /\ out # <<>>
  /\ games["default"].status = "running"
  /\ games["default"].players = <<>>
  /\ timers = {games["default"].timeoutHandle}

\* C25: within a room no two roster entries carry the same socket id
C25_OneEntryPerSocket ==
  \A g \in DOMAIN games :
    \A i, j \in 1..Len(games[g].players) :
      games[g].players[i].socketId = games[g].players[j].socketId => i = j

\* the lobby_update events a step sent for room g
UpdatesFor(g) == SelectSeq(out', LAMBDA e : e.event = "lobby_update" /\ e.gameId = g)

\* C26: after a disconnect no roster entry with the socket that left remains
\* in any room, whatever its status, and every room that lost an entry is sent
\* one lobby_update with its new roster, no other room any
C26_DisconnectRemovesSocket ==
  [][ last'.op = "disconnect" =>
        \A g \in DOMAIN games' :
          /\ \A i \in 1..Len(games'[g].players) :
               games'[g].players[i].socketId # last'.sock
          /\ UpdatesFor(g) =
               IF games'[g].players # games[g].players
               THEN <<[event |-> "lobby_update", gameId |-> g,
                       players |-> LobbyPlayers(games'[g].players)]>>
               ELSE <<>> ]_vars

\* the tap processed by the step meets every condition of acceptance: its room
\* exists and is running, the server's clock reading lies in the window, the
\* player is in the roster and was stored with the socket that sent the tap
TapMeetsConditions ==
  LET g == last'.gameId
  IN  /\ g \in DOMAIN games
      /\ games[g].status = "running"
      /\ games[g].startTime <= last'.now
      /\ last'.now <= games[g].endTime
      /\ MapHas(games[g].players, last'.playerId)
      /\ MapGet(games[g].players, last'.playerId).socketId = last'.sock

\* C27: a tap that fails a condition of acceptance is dropped silently: no
\* event is sent, nothing is acknowledged, no room is created, and the rooms
\* (status, roster, scores, times, handle), the pending timers and the
\* leaderboard are as before
C27_DroppedTapChangesNothing ==
  [][ (last'.op = "tap" /\ ~TapMeetsConditions) =>
        /\ out' = <<>>
        /\ ack' = NoAck
        /\ games' = games
        /\ gameOrder' = gameOrder
        /\ timers' = timers
        /\ recentGames' = recentGames ]_vars

\* C27 witness: a player of a running round tapped after the end of the
\* window, before the timeout ran: nothing was sent
C27_LateTapDropped ==
  /\ last.op = "tap"
  /\ out = <<>>
  /\ last.gameId \in DOMAIN games
  /\ games[last.gameId].status = "running"
  /\ last.now > games[last.gameId].endTime
  /\ MapHas(games[last.gameId].players, last.playerId)
  /\ MapGet(games[last.gameId].players, last.playerId).socketId = last.sock

\* a tap was dropped because no room of its name exists; none was created
C27_TapForUnknownRoom ==
  /\ last.op = "tap"
  /\ out = <<>>
  /\ last.gameId \notin DOMAIN games
  /\ games = <<>>

\* a player's tap was dropped because the clock, set back after the start,
\* read an instant before startTime
C27_EarlyTapDropped ==
  /\ last.op = "tap"
  /\ out = <<>>
  /\ last.gameId \in DOMAIN games
  /\ games[last.gameId].status = "running"
  /\ last.now < games[last.gameId].startTime
  /\ MapHas(games[last.gameId].players, last.playerId)
  /\ MapGet(games[last.gameId].players, last.playerId).socketId = last.sock

\* a tap was dropped in the window of a running round because its playerId
\* is not in the roster
C27_TapOfUnknownPlayer ==
  /\ last.op = "tap"
  /\ out = <<>>
  /\ last.gameId \in DOMAIN games
  /\ games[last.gameId].status = "running"
  /\ games[last.gameId].startTime <= last.now
  /\ last.now <= games[last.gameId].endTime
  /\ games[last.gameId].players # <<>>
  /\ ~MapHas(games[last.gameId].players, last.playerId)

\* a player's tap was dropped because the round had ended
C27_TapAfterEnd ==
  /\ last.op = "tap"
  /\ out = <<>>
  /\ last.gameId \in DOMAIN games
  /\ games[last.gameId].status = "ended"
  /\ MapHas(games[last.gameId].players, last.playerId)
  /\ MapGet(games[last.gameId].players, last.playerId).socketId = last.sock

\* C28: a join, a start, a tap or the firing of an end timer addressed to
\* room R creates no room but R and leaves every other room as it was:
\* status, roster, scores, startTime, endTime, timeoutHandle and pending timer
C28_OtherRoomsUntouched ==
  [][ last'.op \in {"join_game", "start_game", "tap", "timeout"} =>
        /\ DOMAIN games \subseteq DOMAIN games'
        /\ DOMAIN games' \subseteq DOMAIN games \cup {last'.gameId}
        /\ \A h \in DOMAIN games \ {last'.gameId} : games'[h] = games[h]
        /\ \A h \in GameIds \ {last'.gameId} :
             {tm \in timers' : tm.gameId = h} = PendingOf(h) ]_vars

\* C28 witness: the timer of room "g1" fired while room "default" was
\* running with a score and its own timer pending
C28_EndedBesideRunningRoom ==
  /\ last.op = "timeout"
  /\ last.gameId = "g1"
  /\ "default" \in DOMAIN games
  /\ games["default"].status = "running"
  /\ games["default"].timeoutHandle \in timers
  /\ \E i \in 1..Len(games["default"].players) : games["default"].players[i].taps > 0

\* a tap was counted in room "g1" while room "default" was in the lobby
\* with a player
C28_TapBesideLobby ==
  /\ last.op = "tap"
  /\ last.gameId = "g1"
  /\ out # <<>>
  /\ "default" \in DOMAIN games
  /\ games["default"].status = "lobby"
  /\ games["default"].players # <<>>

\* the step acknowledged a join_game or a start_game with ok: false
RefusedStep ==
  /\ last'.op \in {"join_game", "start_game"}
  /\ "ok" \in DOMAIN ack'
  /\ ~ack'.ok

\* C29: a join or a start acknowledged with ok: false applies nothing: the
\* same rooms exist after it as before, each with the same status, roster,
\* scores, startTime, endTime and timeoutHandle, and the same timers are
\* pending, also when the event names a room that did not exist
C29_RefusedAppliesNothing ==
  [][ RefusedStep =>
        /\ DOMAIN games' = DOMAIN games
        /\ games' = games
        /\ gameOrder' = gameOrder
        /\ timers' = timers ]_vars

C31_TimerAndTimesByStatus ==
  /\ \A g \in DOMAIN games :
       /\ (PendingOf(g) # {}) <=> (games[g].status = "running")
       /\ (games[g].startTime = NullTime /\ games[g].endTime = NullTime)
            <=> (games[g].status = "lobby")
  /\ \A g \in GameIds \ DOMAIN games : PendingOf(g) = {}

\* C31 witness: a round has ended: the room is ended, no timer is pending and
\* the window of the round is still stored
C31_EndedKeepsTimes ==
  /\ last.op = "timeout"
  /\ games[last.gameId].status = "ended"
  /\ PendingOf(last.gameId) = {}
  /\ games[last.gameId].startTime # NullTime
  /\ games[last.gameId].endTime = EndTimeOf(games[last.gameId].startTime)

\* a room in the lobby holds a player, has no window and no timer
C31_LobbyWithoutTimes ==
  /\ "default" \in DOMAIN games
  /\ games["default"].status = "lobby"
  /\ games["default"].players # <<>>
  /\ games["default"].startTime = NullTime
  /\ games["default"].endTime = NullTime
  /\ timers = {}

\* room g has left the lobby
LeftLobby(g) == g \in DOMAIN games /\ games[g].status # "lobby"

\* room g has left the lobby and its roster is empty
Deserted(g) == LeftLobby(g) /\ games[g].players = <<>>

\* the step added no member to the roster of room g: every entry it holds
\* afterwards was there before, under the same playerId and socket
NoNewMember(g) ==
  /\ Len(games'[g].players) <= Len(games[g].players)
  /\ \A j \in 1..Len(games'[g].players) :
       \E i \in 1..Len(games[g].players) :
         /\ games'[g].players[j].playerId = games[g].players[i].playerId
         /\ games'[g].players[j].socketId = games[g].players[i].socketId

\* the step refused a start_game for the deserted room g: with
\* already_running while the timer of the round is pending, with no_players
\* after it
StartRefusedOnDeserted(g) ==
  ack' = Rejection(last'.hasAck,
                   IF PendingOf(g) # {} THEN "already_running" ELSE "no_players")

\* C32 as stated: once a room has left the lobby its roster gains no member;
\* once it is deserted it stays so and never starts a round again, every join
\* for it being rejected with game_already_started and every start with
\* no_players or already_running
C32_AsStated ==
  [][ \A g \in DOMAIN games :
        /\ LeftLobby(g) => NoNewMember(g)
        /\ Deserted(g) =>
             /\ Deserted(g)'
             /\ games'[g].status = "running" => games[g].status = "running"
             /\ (last'.op = "join_game" /\ last'.gameId = g) =>
                  ack' = Rejection(last'.hasAck, "game_already_started")
             /\ (last'.op = "start_game" /\ last'.gameId = g) =>
                  StartRefusedOnDeserted(g) ]_vars

\* C32 (amended): the same, a join for the deserted room being rejected with
\* game_already_started if its name is not empty after trimming, and with
\* username_required if it is
C32_DesertedNeverRunsAgain ==
  [][ \A g \in DOMAIN games :
        /\ LeftLobby(g) => NoNewMember(g)
        /\ Deserted(g) =>
             /\ Deserted(g)'
             /\ games'[g].status = "running" => games[g].status = "running"
             /\ (last'.op = "join_game" /\ last'.gameId = g) =>
                  ack' = Rejection(last'.hasAck,
                                   IF Trim(last'.raw) = <<>> THEN "username_required"
                                   ELSE "game_already_started")
             /\ (last'.op = "start_game" /\ last'.gameId = g) =>
                  StartRefusedOnDeserted(g) ]_vars

\* C32 witness: the round of a room ended after its players had left, and a
\* start for the room was then refused with no_players
C32_NoStartAfterDesertedRound ==
  /\ last.op = "start_game"
  /\ ack = [ok |-> FALSE, error |-> "no_players"]
  /\ Deserted(last.gameId)
  /\ games[last.gameId].status = "ended"
  /\ recentGames # <<>>
  /\ recentGames[Len(recentGames)].scores = <<>>

\* a join with a name was refused on a running room that its players had left
C32_JoinRefusedOnDeserted ==
  /\ last.op = "join_game"
  /\ ack = [ok |-> FALSE, error |-> "game_already_started"]
  /\ Deserted(last.gameId)
  /\ games[last.gameId].status = "running"

\* a start was refused with already_running on a running room that its
\* players had left
C32_StartRefusedWhileDesertedRuns ==
  /\ last.op = "start_game"
  /\ ack = [ok |-> FALSE, error |-> "already_running"]
  /\ Deserted(last.gameId)
  /\ PendingOf(last.gameId) # {}

\* the step sent the event ev to room g
Emits(ev, g) ==
  \E i \in 1..Len(out') : out'[i].event = ev /\ out'[i].gameId = g

\* the status of room g before the step, "none" if it did not exist
StatusOf(g) == IF g \in DOMAIN games THEN games[g].status ELSE "none"

\* C33: a room is running exactly from a game_start to the game_results that
\* follows it, and tap_update is sent only in between: game_start is sent by
\* the step that makes the room running, and by no other; game_results by the
\* step that takes it from running to ended, and by no other; and a step that
\* sends tap_update finds the room running and leaves it running. So none is
\* sent in the lobby, nor after game_results before the next game_start.
C33_TapUpdatesInsideRound ==
  [][ \A g \in DOMAIN games' :
        /\ Emits("game_start", g) <=>
             (StatusOf(g) # "running" /\ games'[g].status = "running")
        /\ Emits("game_results", g) <=>
             (StatusOf(g) = "running" /\ games'[g].status # "running")
        /\ Emits("game_results", g) => games'[g].status = "ended"
        /\ Emits("tap_update", g) =>
             (StatusOf(g) = "running" /\ games'[g].status = "running")
        /\ Len(out') <= 1 ]_vars

\* C33 witness: a tap_update was sent in the second round of a room, after
\* the game_results of the first round and the game_start of the second
C33_TapUpdateInSecondRound ==
  /\ last.op = "tap"
  /\ out # <<>>
  /\ out[1].event = "tap_update"
  /\ recentGames # <<>>
  /\ recentGames[Len(recentGames)].gameId = last.gameId
  /\ games[last.gameId].status = "running"
  /\ games[last.gameId].startTime >= recentGames[Len(recentGames)].timestamp - MaxSetBack

\* a player's tap sent after the game_results of a round, before any new
\* start, was answered with nothing
C33_NoUpdateAfterResults ==
  /\ last.op = "tap"
  /\ out = <<>>
  /\ last.gameId \in DOMAIN games
  /\ games[last.gameId].status = "ended"
  /\ OwnTap(games[last.gameId], last.playerId, last.sock)

\* a player's tap sent in the lobby was answered with nothing
C33_NoUpdateInLobby ==
  /\ last.op = "tap"
  /\ out = <<>>
  /\ last.gameId \in DOMAIN games
  /\ games[last.gameId].status = "lobby"
  /\ OwnTap(games[last.gameId], last.playerId, last.sock)

\* C34: a participant whose connection was closed while the room was running
\* is not listed in the game_results of the round nor in its leaderboard
\* record: every score sent and stored is that of a roster entry whose socket
\* is still connected. If the roster is empty the round ends all the same,
\* and the results and the record appended carry no scores and no winner.
C34_LeaversNotInResults ==
  [][ EndStep =>
        LET g == last'.gameId
            roster == games[g].players
            sent == out'[1]
            stored == recentGames'[Len(recentGames')]
        IN  /\ games'[g].status = "ended"
            /\ stored.gameId = g
            /\ stored.scores = sent.scores
            /\ \A i \in 1..Len(sent.scores) :
                 \E j \in 1..Len(roster) :
                   /\ roster[j].playerId = sent.scores[i].playerId
                   /\ conn[roster[j].socketId] = "open"
            /\ roster = <<>> =>
                 /\ sent.scores = <<>>
                 /\ IsNull(sent.winner)
                 /\ IsNull(stored.winner) ]_vars

\* tryMove(direction) on the position st = [player, boxes] of a level: the
\* position after the move, st itself if the move is refused
AfterMove(level, st, dir) ==
  LET direction == DIRECTIONS[dir]
      newX == st.player.x + direction.dx
      newY == st.player.y + direction.dy
      boxIndex == FindIndex(st.boxes, newX, newY)
      boxNewX == newX + direction.dx
      boxNewY == newY + direction.dy
  IN  IF \/ OutOfBounds(level, newX, newY)
         \/ grid(level, newX, newY) = TILE_TYPES.WALL
         \/ boxIndex # 0 /\ ~canPushBox(level, st.boxes, boxNewX, boxNewY)
      THEN st
      ELSE [player |-> [x |-> newX, y |-> newY],
            boxes |-> IF boxIndex # 0
                      THEN [st.boxes EXCEPT ![boxIndex] = [x |-> boxNewX, y |-> boxNewY]]
                      ELSE st.boxes]

\* every move of the page is the move AfterMove computes
AfterMoveIsTryMove ==
  [][ last'.op = "move" =>
        [player |-> player', boxes |-> boxes'] =
          AfterMove(currentLevel, [player |-> player, boxes |-> boxes], last'.dir) ]_vars

\* the positions that sequences of moves reach from the positions `frontier`,
\* `seen` being those found so far
RECURSIVE ReachFrom(_, _, _)
ReachFrom(level, seen, frontier) ==
  IF frontier = {} THEN seen
  ELSE LET found == {AfterMove(level, st, dir) : st \in frontier, dir \in Dirs} \ seen
       IN  ReachFrom(level, seen \cup found, found)

\* the position loadLevel leaves
StartOf(level) ==
  [player |-> PlayerOf(level, [x |-> 0, y |-> 0]), boxes |-> BoxesOf(level)]

\* the positions of a level that some sequence of moves reaches from its start
Reachable(level) == ReachFrom(level, {StartOf(level)}, {StartOf(level)})

\* some sequence of moves from the start of the level makes checkWinCondition
\* schedule the win overlay
WinReachable(level) ==
  \E st \in Reachable(level) : checkWinCondition(st.boxes, GoalsOf(level))

\* C35: whatever level is loaded, a position in which checkWinCondition holds
\* can be reached from its start by some sequence of moves
C35_LoadedLevelWinnable == WinReachable(currentLevel)

\* the cell (x, y) is inside the grid of the level and is no wall
OnFloor(level, x, y) ==
  /\ 0 <= x /\ x < gridWidth(level)
  /\ 0 <= y /\ y < gridHeight(level)
  /\ CharAt(level, x, y) # "#"

\* the position of the page is well formed: as many boxes as the level was
\* loaded with, no two on one cell, every box and the player inside the grid
\* and off the walls, and the player on no box
WellFormed(level, pl, bs) ==
  /\ Len(bs) = Len(BoxesOf(level))
  /\ \A i, j \in 1..Len(bs) : bs[i] = bs[j] => i = j
  /\ \A i \in 1..Len(bs) : OnFloor(level, bs[i].x, bs[i].y)
  /\ OnFloor(level, pl.x, pl.y)
  /\ ~BoxOn(bs, pl.x, pl.y)

\* the move the step processed was blocked: the cell the player stepped
\* toward is outside the grid, a wall, or holds a box whose far side is
\* outside the grid, a wall or another box
BlockedMove ==
  LET d == DIRECTIONS[last'.dir]
      tx == player.x + d.dx
      ty == player.y + d.dy
  IN  \/ ~OnFloor(currentLevel, tx, ty)
      \/ BoxOn(boxes, tx, ty) /\ ~FreeCell(currentLevel, boxes, tx + d.dx, ty + d.dy)

\* C36: in every state reached from a loaded level by moves, undos, resets
\* and level changes the position is well formed, and a blocked move leaves
\* player, boxes, move counter, push counter and undo history unchanged (a
\* move that is not blocked moves the player)
C36_WellFormedPositions ==
  /\ WellFormed(currentLevel, player, boxes)
  /\ [][ /\ WellFormed(currentLevel', player', boxes')
         /\ last'.op = "move" =>
              IF BlockedMove
              THEN /\ player' = player
                   /\ boxes' = boxes
                   /\ moveCount' = moveCount
                   /\ pushCount' = pushCount
                   /\ history' = history
              ELSE /\ player' # player
                   /\ moveCount' = moveCount + 1 ]_vars

\* C36 witness: after a box was pushed against a wall and the push undone
\* and repeated, a further push of it was blocked, leaving the counters and
\* the history of the two moves
C36_BlockedAfterUndo ==
  /\ last.op = "move"
  /\ ~last.moved
  /\ inputs = 4
  /\ moveCount = 1
  /\ pushCount = 1
  /\ Len(history) = 1
  /\ BoxOn(boxes, player.x + DIRECTIONS[last.dir].dx, player.y + DIRECTIONS[last.dir].dy)
  /\ ~OnFloor(currentLevel, player.x + 2 * DIRECTIONS[last.dir].dx,
                            player.y + 2 * DIRECTIONS[last.dir].dy)

\* a move toward a wall was blocked with the undo history at its limit
C36_BlockedAtHistoryLimit ==
  /\ last.op = "move"
  /\ ~last.moved
  /\ Len(history) = HISTORY_LIMIT
  /\ ~OnFloor(currentLevel, player.x + DIRECTIONS[last.dir].dx,
                            player.y + DIRECTIONS[last.dir].dy)

====
